---- MODULE Spec2Model ----
(***************************************************************************)
(* Model of the global toolbar coordinator of blumbaben                    *)
(* (src/utils/globalToolbarManager.ts, src/utils/domUtils.ts).             *)
(*                                                                         *)
(* The coordinator is single-threaded: every public method runs to         *)
(* completion, so each method call is one action.  The only asynchronous   *)
(* primitive is the timer armed by scheduleHide; the runtime's table of    *)
(* armed timers is the variable `timers`, and TimerFire is the runtime     *)
(* invoking the callback of an armed timer.                                *)
(***************************************************************************)
EXTENDS Integers, Sequences, FiniteSets, TLC

\* ------------------------------------------------------------------ bounds
\* Number of distinct timer handles the runtime can hand out at one time.
MaxTimers == 2
\* Longest text an input holds before formatting.
MaxLen == 2
\* Number of unsubscribe functions callers keep at one time.
MaxClosures == 3

\* --------------------------------------------------------------- constants
\* JS null / undefined for references, and the falsy timer handle.
Null == "null"
Undefined == "undefined"
NoTimer == 0
\* A missing selection offset (selectionStart / selectionEnd === null).
NullSel == -1
\* position: null is the empty tuple, {x, y} is the pair <<x, y>>.
NullPos == << >>

Elements == {"A", "B"}
Callbacks == {"S1", "S2"}
TimerIds == 1..MaxTimers
Delays == {0, 500}
PositionFns == {"default", "custom", "throwing"}
\* The formatters callers pass to applyFormat: text.toUpperCase(), the
\* title-case formatter, and one that throws.
Formatters == {"upper", "title", "throwing"}
\* The characters of input text: a lower-case letter, an upper-case letter
\* and whitespace.
Alphabet == {"a", "B", " "}
ChangeOverrides == {Undefined, "cbX"}
\* What a subscriber callback does with the snapshot it is handed: keep it
\* (the hooks' setToolbarState); unsubscribe the other callback; call
\* hideToolbar() when the snapshot is visible; call showToolbar(B) when the
\* snapshot shows A; throw; assign to a field of the snapshot; assign to
\* snapshot.position.x.
Recorder == "record"
ReentrantBehaviours == {Recorder, "unsubscribePeer", "hideWhenVisible", "redirectFocus", "throw"}
MutatingBehaviours == {Recorder, "mutateFields", "mutatePosition"}
\* The slot of a Set entry deleted while the Set is being iterated.
Deleted == "deleted"
\* The change callbacks an element's props can hold over time.
OnChangeProps(e) == IF e = "A" THEN {"cbA", "cbA2", Undefined} ELSE {Undefined, "cbB"}
\* The toolbar component without a style prop; the style props below set left
\* and position, or a background and top.
NoStyle == [background |-> << >>, left |-> << >>, top |-> << >>, position |-> << >>]
\* The configurations and props callers give a hook or component; a field
\* left out is the empty tuple.
\* The defaults of the hook's configuration and the toolbar's stacking order.
DefaultHideDelay == 500
ToolbarZIndex == 1000
\* onFocus, onBlur: the props a caller gives a wrapped component.
NoOptions ==
    [getPosition |-> << >>, hideDelay |-> << >>, preventCloseOnClick |-> << >>,
     style |-> NoStyle, onFocus |-> Undefined, onBlur |-> Undefined]
HookOptions ==
    {NoOptions,
     [getPosition |-> << "custom" >>, hideDelay |-> << 0 >>,
      preventCloseOnClick |-> << FALSE >>, style |-> [background |-> << >>, left |-> << 0 >>, top |-> << >>,
                position |-> << "absolute" >>],
      onFocus |-> Undefined, onBlur |-> Undefined],
     [getPosition |-> << "throwing" >>, hideDelay |-> << >>,
      preventCloseOnClick |-> << TRUE >>, style |-> [background |-> << "red" >>, left |-> << >>, top |-> << 0 >>,
                position |-> << >>],
      onFocus |-> Undefined, onBlur |-> Undefined]}
WrappedProps ==
    {NoOptions,
     [getPosition |-> << "custom" >>, hideDelay |-> << 0 >>,
      preventCloseOnClick |-> << >>, style |-> NoStyle,
      onFocus |-> "notAFunction", onBlur |-> "userHandler"],
     [getPosition |-> << "throwing" >>, hideDelay |-> << >>,
      preventCloseOnClick |-> << >>, style |-> NoStyle,
      onFocus |-> "userHandler", onBlur |-> "notAFunction"],
     [getPosition |-> << >>, hideDelay |-> << >>,
      preventCloseOnClick |-> << >>, style |-> NoStyle,
      onFocus |-> "userHandler", onBlur |-> "userHandler"]}

\* ---------------------------------------------------------------- state
VARIABLES
    state,                  \* GlobalToolbarManager.state
    activeElementOnChange,  \* GlobalToolbarManager.activeElementOnChange
    hideTimeout,            \* GlobalToolbarManager.hideTimeout
    subscribers,            \* GlobalToolbarManager.subscribers (insertion order)
    timers,                 \* timers armed in the runtime (setTimeout/clearTimeout)
    els,                    \* the DOM elements the coordinator reads and writes
    issued,                 \* callbacks for which an unsubscribe closure exists
    behaviour,              \* what each subscriber callback does when invoked
    closures,               \* the unsubscribe functions callers keep, and whether each was called
    hooks,                  \* the hook instances, named by their state setter
    focused,                \* document.activeElement, if it is one of the elements
    calls,                  \* snapshots each callback received during the last operation
    log,                    \* DOM effects of the last operation, in order
    returned,               \* what the last operation returned (a getState snapshot), if anything
    threw,                  \* TRUE iff the last operation ended by throwing
    lastOp,                 \* the last operation issued
    prevOp,                 \* the operation issued before it
    superseded,             \* armed timers that a later operation was to cancel
    staleFired,             \* TRUE once a superseded timer has executed hide
    shownSinceHide          \* the last show that returned, if no hide ran after it

vars == << state, activeElementOnChange, hideTimeout, subscribers, timers, els,
           issued, behaviour, closures, hooks, focused, calls, log, returned, threw, lastOp, prevOp,
           superseded, staleFired, shownSinceHide >>

\* ------------------------------------------------------------- helpers
HiddenState == [activeElement |-> Null, isVisible |-> FALSE, position |-> NullPos]

NoCalls == [c \in Callbacks |-> << >>]

\* toUpperCase on the characters of the model's alphabet.
UpperChar(c) == IF c = "a" THEN "A" ELSE IF c = "b" THEN "B" ELSE c

Upper(s) == [i \in 1..Len(s) |-> UpperChar(s[i])]

\* toLowerCase on the characters of the model's alphabet.
LowerChar(c) == IF c = "A" THEN "a" ELSE IF c = "B" THEN "b" ELSE c

\* text.replace(/\w\S*/g, w => w.charAt(0).toUpperCase() + w.slice(1).toLowerCase()):
\* a match starts at a letter and runs up to the next whitespace.
RECURSIVE TitleFrom(_, _, _)
TitleFrom(s, i, inWord) ==
    IF i > Len(s) THEN << >>
    ELSE IF s[i] = " " THEN << s[i] >> \o TitleFrom(s, i + 1, FALSE)
    ELSE IF inWord THEN << LowerChar(s[i]) >> \o TitleFrom(s, i + 1, TRUE)
    ELSE << UpperChar(s[i]) >> \o TitleFrom(s, i + 1, TRUE)

Title(s) == TitleFrom(s, 1, FALSE)

FormatterThrows(f) == f = "throwing"

RunFormatter(f, s) == IF f = "upper" THEN Upper(s) ELSE IF f = "title" THEN Title(s) ELSE s

\* One observable effect of an operation: a formatter call (by, text), a DOM
\* event or a change callback (by) with its target, currentTarget and the
\* element's value at that moment (text), a focus() call, a console warning.
Effect(ev, by, target, text) ==
    [ev |-> ev, by |-> by, target |-> target, currentTarget |-> target, text |-> text]

\* String.prototype.substring(start, end) on 0-based offsets.
Substring(s, start, end) == SubSeq(s, start + 1, end)

\* `x ?? 0` for a selection offset.
OrZero(x) == IF x = NullSel THEN 0 ELSE x

\* { ...old, ...new } for a Partial<ToolbarState>.
Merge(old, new) == [f \in DOMAIN old |-> IF f \in DOMAIN new THEN new[f] ELSE old[f]]

\* Set.prototype.add / delete on an insertion-ordered set.  A deleted entry
\* leaves its slot empty, so that a forEach in progress keeps its place: it
\* skips the entry if it has not reached it and still visits entries added
\* behind it.  The empty slots are dropped once no iteration is running.
SetAdd(s, x) == IF \E i \in 1..Len(s) : s[i] = x THEN s ELSE Append(s, x)

SetDelete(s, x) == [i \in 1..Len(s) |-> IF s[i] = x THEN Deleted ELSE s[i]]

Compact(s) == SelectSeq(s, LAMBDA y : y # Deleted)

\* The other subscriber callback.
Peer(cb) == CHOOSE c \in Callbacks : c # cb

\* ------------------------------------------------- globalToolbarManager.ts
DefaultGetPosition(el) == << el.rect.left, el.rect.bottom + 5 >>

\* The positioning functions callers pass to showToolbar.
PositionThrows(fn) == fn = "throwing"

GetPosition(fn, el) == IF fn = "default" THEN DefaultGetPosition(el) ELSE << 32, 48 >>

GetState(w) == w.state

\* Bug: the handle is forgotten but clearTimeout is never called.
MutClearForgetsRuntime(w) ==
    IF w.hideTimeout # NoTimer THEN [w EXCEPT !.hideTimeout = NoTimer] ELSE w

ClearHideTimeout(w) ==
    IF w.hideTimeout # NoTimer
    THEN [w EXCEPT !.timers = @ \ {w.hideTimeout}, !.hideTimeout = NoTimer]
    ELSE w

RECURSIVE Deliver(_, _)
RECURSIVE HideToolbar(_)
RECURSIVE ShowToolbar(_, _, _)

\* Bug: within one operation a callback is handed again the snapshot it was
\* handed first.
MutInvokeStale(w, cb) ==
    LET snapshot == GetState(w)
        w1 == [w EXCEPT !.calls[cb] = Append(@, IF @ # << >> THEN @[1] ELSE snapshot)]
        b == w.behaviour[cb]
    IN  IF b = "unsubscribePeer"
        THEN [w1 EXCEPT !.subscribers = SetDelete(@, Peer(cb))]
        ELSE IF b = "hideWhenVisible" /\ snapshot.isVisible THEN HideToolbar(w1)
        ELSE IF b = "redirectFocus" /\ snapshot.activeElement = "A"
        THEN ShowToolbar(w1, "B", "default")
        ELSE IF b = "throw" THEN [w1 EXCEPT !.threw = TRUE]
        ELSE IF b = "mutatePosition" /\ snapshot.position # NullPos
        THEN [w1 EXCEPT !.state.position = << 0, snapshot.position[2] >>]
        ELSE w1

\* One subscriber callback invoked with getState().  The snapshot is a new
\* object with the three fields of the state: an assignment to one of its
\* fields stays in the snapshot, but its position is the very object the
\* state refers to, so an assignment to snapshot.position.x is one to the
\* state's position.  A callback may call back into the coordinator.
Invoke(w, cb) ==
    LET snapshot == GetState(w)
        w1 == [w EXCEPT !.calls[cb] = Append(@, snapshot)]
        b == w.behaviour[cb]
    IN  IF b = "unsubscribePeer"
        THEN [w1 EXCEPT !.subscribers = SetDelete(@, Peer(cb))]
        ELSE IF b = "hideWhenVisible" /\ snapshot.isVisible THEN HideToolbar(w1)
        ELSE IF b = "redirectFocus" /\ snapshot.activeElement = "A"
        THEN ShowToolbar(w1, "B", "default")
        ELSE IF b = "throw" THEN [w1 EXCEPT !.threw = TRUE]
        ELSE IF b = "mutatePosition" /\ snapshot.position # NullPos
        THEN [w1 EXCEPT !.state.position = << 0, snapshot.position[2] >>]
        ELSE w1

\* Bug: an exception thrown by a callback does not end the iteration.
RECURSIVE MutDeliverIsolates(_, _)
MutDeliverIsolates(w, i) ==
    IF i > Len(w.subscribers) THEN w
    ELSE IF w.subscribers[i] = Deleted THEN MutDeliverIsolates(w, i + 1)
    ELSE MutDeliverIsolates(Invoke(w, w.subscribers[i]), i + 1)

\* this.subscribers.forEach(...) from the i-th slot on; an exception thrown by
\* a callback ends it.
Deliver(w, i) ==
    IF i > Len(w.subscribers) \/ w.threw THEN w
    ELSE IF w.subscribers[i] = Deleted THEN Deliver(w, i + 1)
    ELSE Deliver(Invoke(w, w.subscribers[i]), i + 1)

\* Bug: a transition that changes nothing is not published.
MutSetStateSuppress(w, newState) ==
    IF Merge(w.state, newState) = w.state THEN w
    ELSE Deliver([w EXCEPT !.state = Merge(w.state, newState)], 1)

\* Bug: the subscribers are notified before the new state is stored.
MutSetStateNotifyFirst(w, newState) ==
    [Deliver(w, 1) EXCEPT !.state = Merge(w.state, newState)]

SetState(w, newState) ==
    Deliver([w EXCEPT !.state = Merge(w.state, newState)], 1)

\* Bug: hide publishes only { isVisible: false }.
MutHideKeepsElement(w) ==
    SetState([ClearHideTimeout(w) EXCEPT !.activeElementOnChange = Undefined],
             [isVisible |-> FALSE])

\* Bug: hide writes the state without publishing it.
MutHideSilent(w) ==
    [ClearHideTimeout(w) EXCEPT !.activeElementOnChange = Undefined,
                                !.state = HiddenState]

\* Bug: hide toggles the toolbar instead of hiding it.
MutHideToggle(w) ==
    SetState([ClearHideTimeout(w) EXCEPT !.activeElementOnChange = Undefined],
             IF w.state.isVisible THEN HiddenState
             ELSE [activeElement |-> "A", isVisible |-> TRUE, position |-> << 0, 0 >>])

HideToolbar(w) ==
    SetState([ClearHideTimeout(w) EXCEPT !.activeElementOnChange = Undefined],
             HiddenState)

\* Bug: the previous timer is not cleared before the next is installed.
MutScheduleAdditive(w, delay, t) ==
    [w EXCEPT !.hideTimeout = t, !.timers = @ \cup {t}]

\* Bug: a zero delay hides synchronously.
MutScheduleSyncZero(w, delay, t) ==
    IF delay = 0 THEN HideToolbar(w)
    ELSE [ClearHideTimeout(w) EXCEPT !.hideTimeout = t, !.timers = @ \cup {t}]

\* t is the handle setTimeout returns.
ScheduleHide(w, delay, t) ==
    LET w1 == ClearHideTimeout(w)
    IN  [w1 EXCEPT !.hideTimeout = t, !.timers = @ \cup {t}]

\* Bug: cancelScheduledHide does nothing.
MutCancelNoop(w) == w

\* Bug: with nothing pending, cancelScheduledHide toggles the toolbar back.
MutCancelUndoesWhenIdle(w) ==
    IF w.hideTimeout # NoTimer THEN ClearHideTimeout(w)
    ELSE SetState(w, IF w.state.isVisible THEN HiddenState
                     ELSE [activeElement |-> "A", isVisible |-> TRUE, position |-> << 0, 0 >>])

CancelScheduledHide(w) == ClearHideTimeout(w)

\* Bug: show does not cancel the pending hide.
MutShowNoCancel(w, element, fn) ==
    LET w2 == [w EXCEPT !.activeElementOnChange = w.els[element].onChange]
    IN  IF PositionThrows(fn)
        THEN [w2 EXCEPT !.threw = TRUE]
        ELSE SetState(w2, [activeElement |-> element,
                           isVisible |-> TRUE,
                           position |-> GetPosition(fn, w.els[element])])

\* Bug: show is ignored while a toolbar is already visible.
MutShowFirstWins(w, element, fn) ==
    LET w1 == ClearHideTimeout(w)
    IN  IF w.state.isVisible \/ PositionThrows(fn)
        THEN [w1 EXCEPT !.threw = PositionThrows(fn)]
        ELSE SetState([w1 EXCEPT !.activeElementOnChange = w.els[element].onChange],
                      [activeElement |-> element,
                       isVisible |-> TRUE,
                       position |-> GetPosition(fn, w.els[element])])

\* Bug: an element without a change callback leaves the captured one in place.
MutShowKeepsCallbackIfNone(w, element, fn) ==
    LET w1 == ClearHideTimeout(w)
        w2 == IF w.els[element].onChange = Undefined THEN w1
              ELSE [w1 EXCEPT !.activeElementOnChange = w.els[element].onChange]
    IN  IF PositionThrows(fn)
        THEN [w2 EXCEPT !.threw = TRUE]
        ELSE SetState(w2, [activeElement |-> element,
                           isVisible |-> TRUE,
                           position |-> GetPosition(fn, w.els[element])])

ShowToolbar(w, element, fn) ==
    LET w1 == ClearHideTimeout(w)
        w2 == [w1 EXCEPT !.activeElementOnChange = w.els[element].onChange]
    IN  IF PositionThrows(fn)
        THEN [w2 EXCEPT !.threw = TRUE]
        ELSE SetState(w2, [activeElement |-> element,
                           isVisible |-> TRUE,
                           position |-> GetPosition(fn, w.els[element])])

\* Bug: subscribe replays the current state to the new callback.
MutSubscribeReplays(w, cb) == Invoke([w EXCEPT !.subscribers = SetAdd(@, cb)], cb)

Subscribe(w, cb) == [w EXCEPT !.subscribers = SetAdd(@, cb)]

\* Bug: the closure returned by subscribe does nothing.
MutUnsubscribeKeeps(w, cb) == w

\* The closure returned by subscribe(cb).
Unsubscribe(w, cb) == [w EXCEPT !.subscribers = SetDelete(@, cb)]

\* subscribe(cb) whose caller keeps the unsubscribe function it returns.
SubscribeKeeping(w, cb) ==
    [Subscribe(w, cb) EXCEPT !.closures = Append(@, [cb |-> cb, called |-> FALSE])]

\* The i-th kept unsubscribe function is called.
CallClosure(w, i) ==
    [Unsubscribe(w, w.closures[i].cb) EXCEPT !.closures[i].called = TRUE]

\* ------------------------------------------------------------ domUtils.ts
\* The text handed to the formatter: the selected slice, or the whole value.
FormatterInput(el) ==
    LET selectionEnd == OrZero(el.selectionEnd)
        selectionStart == OrZero(el.selectionStart)
    IN  IF selectionEnd > selectionStart
        THEN Substring(el.value, selectionStart, selectionEnd)
        ELSE el.value

\* Bug: a caret (selectionEnd = selectionStart) counts as a selection.
MutFormatCaretIsSelection(el, f) ==
    LET selectionEnd == OrZero(el.selectionEnd)
        selectionStart == OrZero(el.selectionStart)
        value == el.value
    IN  IF selectionEnd >= selectionStart
        THEN Substring(value, 0, selectionStart)
                 \o RunFormatter(f, Substring(value, selectionStart, selectionEnd))
                 \o Substring(value, selectionEnd, Len(value))
        ELSE RunFormatter(f, value)

\* Bug: the text in front of the selection is formatted along with it.
MutFormatFromStart(el, f) ==
    LET selectionEnd == OrZero(el.selectionEnd)
        selectionStart == OrZero(el.selectionStart)
        value == el.value
    IN  IF selectionEnd > selectionStart
        THEN RunFormatter(f, Substring(value, 0, selectionEnd))
                 \o Substring(value, selectionEnd, Len(value))
        ELSE RunFormatter(f, value)

\* Bug: a missing offset means there is no selection at all.
MutFormatMissingIsWhole(el, f) ==
    LET selectionEnd == el.selectionEnd
        selectionStart == el.selectionStart
        value == el.value
    IN  IF selectionEnd # NullSel /\ selectionStart # NullSel /\ selectionEnd > selectionStart
        THEN Substring(value, 0, selectionStart)
                 \o RunFormatter(f, Substring(value, selectionStart, selectionEnd))
                 \o Substring(value, selectionEnd, Len(value))
        ELSE RunFormatter(f, value)

ApplyFormattingOnSelection(el, f) ==
    LET selectionEnd == OrZero(el.selectionEnd)
        selectionStart == OrZero(el.selectionStart)
        value == el.value
    IN  IF selectionEnd > selectionStart
        THEN Substring(value, 0, selectionStart)
                 \o RunFormatter(f, Substring(value, selectionStart, selectionEnd))
                 \o Substring(value, selectionEnd, Len(value))
        ELSE RunFormatter(f, value)

\* Bug: the input event is dispatched only when there is no change callback.
MutUpdateEitherOr(w, element, newValue, onChange) ==
    LET w1 == [w EXCEPT !.els[element].value = newValue]
    IN  IF onChange # Undefined
        THEN [w1 EXCEPT !.log = Append(@, Effect("onChange", onChange, element, newValue))]
        ELSE [w1 EXCEPT !.log = Append(@, Effect("input", Null, element, newValue))]

\* Bug: the 'input' event is dispatched before the value is written, so its
\* listeners see the old value.
MutUpdateDispatchFirst(w, element, newValue, onChange) ==
    LET w1 == [w EXCEPT !.log = Append(@, Effect("input", Null, element,
                                                 w.els[element].value)),
                        !.els[element].value = newValue]
    IN  IF onChange # Undefined
        THEN [w1 EXCEPT !.log = Append(@, Effect("onChange", onChange, element, newValue))]
        ELSE w1

UpdateElementValue(w, element, newValue, onChange) ==
    LET w1 == [w EXCEPT !.els[element].value = newValue,
                        !.log = Append(@, Effect("input", Null, element, newValue))]
    IN  IF onChange # Undefined
        THEN [w1 EXCEPT !.log = Append(@, Effect("onChange", onChange, element, newValue))]
        ELSE w1

\* ------------------------------------------- globalToolbarManager.ts, cont.
\* Bug: the element is not re-focused.
MutFormatNoFocus(w, f, onChange) ==
    LET activeElement == w.state.activeElement
        el == w.els[activeElement]
        w0 == [w EXCEPT !.log = Append(@, Effect("format", f, activeElement,
                                                 FormatterInput(el)))]
        onChangeHandler == IF onChange # Undefined THEN onChange
                           ELSE w.activeElementOnChange
    IN  IF FormatterThrows(f) THEN [w0 EXCEPT !.threw = TRUE]
        ELSE UpdateElementValue(w0, activeElement, ApplyFormattingOnSelection(el, f),
                                onChangeHandler)

\* Bug: the callback captured at show time wins over the override.
MutFormatCapturedFirst(w, f, onChange) ==
    LET activeElement == w.state.activeElement
        el == w.els[activeElement]
        w0 == [w EXCEPT !.log = Append(@, Effect("format", f, activeElement,
                                                 FormatterInput(el)))]
        newValue == ApplyFormattingOnSelection(el, f)
        onChangeHandler == IF w.activeElementOnChange # Undefined
                           THEN w.activeElementOnChange ELSE onChange
        w1 == UpdateElementValue(w0, activeElement, newValue, onChangeHandler)
    IN  IF FormatterThrows(f) THEN [w0 EXCEPT !.threw = TRUE]
        ELSE [w1 EXCEPT !.log = Append(@, Effect("focus", Null, activeElement, newValue))]

\* Bug: the element is re-focused even though the formatter threw.
MutFormatFocusesOnThrow(w, f, onChange) ==
    LET activeElement == w.state.activeElement
        el == w.els[activeElement]
        w0 == [w EXCEPT !.log = Append(@, Effect("format", f, activeElement,
                                                 FormatterInput(el)))]
        newValue == ApplyFormattingOnSelection(el, f)
        onChangeHandler == IF onChange # Undefined THEN onChange
                           ELSE w.activeElementOnChange
        w1 == UpdateElementValue(w0, activeElement, newValue, onChangeHandler)
    IN  IF FormatterThrows(f)
        THEN [w0 EXCEPT !.threw = TRUE,
                        !.log = Append(@, Effect("focus", Null, activeElement, el.value))]
        ELSE [w1 EXCEPT !.log = Append(@, Effect("focus", Null, activeElement, newValue))]

\* element.focus(): nothing when the element has the focus already; else the
\* focus moves and the focus event runs the element's onFocus handler, the
\* hook's handleFocus under its default configuration, synchronously.
Focus(w, element) ==
    IF w.focused = element THEN w
    ELSE IF w.els[element].onFocus = Undefined THEN [w EXCEPT !.focused = element]
    ELSE ShowToolbar([w EXCEPT !.focused = element], element, "default")

\* The focused element loses the focus: its blur event runs its onBlur
\* handler, the hook's handleBlur under its default configuration.
Blur(w, t) ==
    IF w.els[w.focused].onFocus = Undefined THEN [w EXCEPT !.focused = Null]
    ELSE ScheduleHide([w EXCEPT !.focused = Null], DefaultHideDelay, t)

\* Bug: applyFormat cancels the pending hide, as a show does.
MutFormatCancelsHide(w, f, onChange) ==
    LET activeElement == w.state.activeElement
        el == w.els[activeElement]
        w0 == [ClearHideTimeout(w) EXCEPT !.log = Append(@, Effect("format", f, activeElement,
                                                                   FormatterInput(el)))]
        newValue == ApplyFormattingOnSelection(el, f)
        onChangeHandler == IF onChange # Undefined THEN onChange
                           ELSE w.activeElementOnChange
        w1 == UpdateElementValue(w0, activeElement, newValue, onChangeHandler)
    IN  IF FormatterThrows(f) THEN [w0 EXCEPT !.threw = TRUE]
        ELSE [w1 EXCEPT !.log = Append(@, Effect("focus", Null, activeElement, newValue))]

\* applyFormat once an active element is known to exist: format, write the value
\* and notify, re-focus.  A formatter that throws ends the call where it is called.
FormatActiveElement(w, f, onChange) ==
    LET activeElement == w.state.activeElement
        el == w.els[activeElement]
        w0 == [w EXCEPT !.log = Append(@, Effect("format", f, activeElement,
                                                 FormatterInput(el)))]
        newValue == ApplyFormattingOnSelection(el, f)
        onChangeHandler == IF onChange # Undefined THEN onChange
                           ELSE w.activeElementOnChange
        w1 == UpdateElementValue(w0, activeElement, newValue, onChangeHandler)
    IN  IF FormatterThrows(f) THEN [w0 EXCEPT !.threw = TRUE]
        ELSE Focus([w1 EXCEPT !.log = Append(@, Effect("focus", Null, activeElement, newValue))],
                   activeElement)

\* Bug: with no active element the supplied override is still invoked.
MutApplyNoGuard(w, f, onChange) ==
    IF w.state.activeElement = Null
    THEN IF onChange # Undefined
         THEN [w EXCEPT !.log = Append(@, Effect("onChange", onChange, Null, << >>))]
         ELSE w
    ELSE FormatActiveElement(w, f, onChange)

ApplyFormat(w, f, onChange) ==
    IF w.state.activeElement = Null
    THEN [w EXCEPT !.log = Append(@, Effect("warn", Null, Null, << >>))]
    ELSE FormatActiveElement(w, f, onChange)

\* ------------------------------------------- hooks/useFormattingToolbar.ts
\* `opt ?? d` / a destructuring default for a field that may be left out.
OrDefault(opt, d) == IF opt = << >> THEN d ELSE opt[1]

\* Bug: the default hide delay is 0.
MutUseConfigNoDelay(o) ==
    [getPosition |-> OrDefault(o.getPosition, "default"),
     hideDelay |-> OrDefault(o.hideDelay, 0),
     preventCloseOnClick |-> OrDefault(o.preventCloseOnClick, TRUE)]

\* const { getPosition = defaultGetPosition, hideDelay = 500,
\*         preventCloseOnClick = true } = config
UseConfig(o) ==
    [getPosition |-> OrDefault(o.getPosition, "default"),
     hideDelay |-> OrDefault(o.hideDelay, DefaultHideDelay),
     preventCloseOnClick |-> OrDefault(o.preventCloseOnClick, TRUE)]

\* A hook instance that is not mounted.
Unmounted == [phase |-> "unmounted", toolbarState |-> HiddenState, options |-> NoOptions]

\* The render of a mounting hook: useState(globalToolbarManager.getState()).
HookRender(w, h, o) ==
    [w EXCEPT !.hooks[h] = [phase |-> "rendered", toolbarState |-> GetState(w),
                            options |-> o]]

\* Bug: the effect reads the state again when it subscribes.
MutHookEffectResyncs(w, h) ==
    [Subscribe(w, h) EXCEPT !.hooks[h].phase = "subscribed",
                            !.hooks[h].toolbarState = GetState(w),
                            !.log = Append(@, Effect("subscribe", h, Null, << >>))]

\* Its effect: globalToolbarManager.subscribe(setToolbarState).
HookEffect(w, h) ==
    [Subscribe(w, h) EXCEPT !.hooks[h].phase = "subscribed",
                            !.log = Append(@, Effect("subscribe", h, Null, << >>))]

\* Bug: the effect returns no cleanup.
MutHookUnmountLeaks(w, h) == [w EXCEPT !.hooks[h] = Unmounted]

\* Unmount: the effect's cleanup, the unsubscribe function, runs if the effect ran.
HookUnmount(w, h) ==
    IF w.hooks[h].phase = "subscribed"
    THEN [Unsubscribe(w, h) EXCEPT !.hooks[h] = Unmounted,
                                   !.log = Append(@, Effect("unsubscribe", h, Null, << >>))]
    ELSE [w EXCEPT !.hooks[h] = Unmounted]

\* Bug: the hooks never take the snapshots their setters are handed.
MutHooksIgnoreUpdates(w) == w.hooks

\* setToolbarState(snapshot): a mounted hook holds the last snapshot its
\* setter was called with.
HooksAfter(w) ==
    [h \in Callbacks |->
        IF w.hooks[h].phase # "unmounted" /\ w.calls[h] # << >>
        THEN [w.hooks[h] EXCEPT !.toolbarState = w.calls[h][Len(w.calls[h])]]
        ELSE w.hooks[h]]

\* What the hook returns to its component.
HookResult(hk) == [isVisible |-> hk.toolbarState.isVisible, toolbarState |-> hk.toolbarState]

\* handleFocus: showToolbar(e.currentTarget) with the configured getPosition.
HandleFocus(w, h, e) ==
    LET getPosition == UseConfig(w.hooks[h].options).getPosition
    IN  ShowToolbar([w EXCEPT !.log = Append(@, Effect("showToolbar", getPosition, e, << >>))],
                    e, getPosition)

\* Bug: blur hides at once.
MutHandleBlurHidesNow(w, h, t) ==
    HideToolbar([w EXCEPT !.log = Append(@, Effect("hideToolbar", Null, Null, << >>))])

\* handleBlur: scheduleHide(hideDelay).
HandleBlur(w, h, t) ==
    LET hideDelay == UseConfig(w.hooks[h].options).hideDelay
    IN  ScheduleHide([w EXCEPT !.log = Append(@, Effect("scheduleHide", Null, Null,
                                                        << hideDelay >>))],
                     hideDelay, t)

\* getToolbarProps(): the style, and whether an onMouseDown handler is there.
GetToolbarProps(hk) ==
    [style |-> [left |-> IF hk.toolbarState.position = NullPos THEN 0
                         ELSE hk.toolbarState.position[1],
                top |-> IF hk.toolbarState.position = NullPos THEN 0
                        ELSE hk.toolbarState.position[2],
                position |-> "fixed", zIndex |-> ToolbarZIndex],
     onMouseDown |-> UseConfig(hk.options).preventCloseOnClick]

\* Bug: the handler prevents the default but leaves the pending hide.
MutMouseDownKeepsTimer(w, h) ==
    IF GetToolbarProps(w.hooks[h]).onMouseDown
    THEN [w EXCEPT !.log = Append(@, Effect("preventDefault", Null, Null, << >>))]
    ELSE w

\* A pointer goes down on the toolbar that spreads getToolbarProps().
ToolbarMouseDown(w, h) ==
    IF GetToolbarProps(w.hooks[h]).onMouseDown
    THEN CancelScheduledHide(
             [w EXCEPT !.log = Append(Append(@, Effect("preventDefault", Null, Null, << >>)),
                                      Effect("cancelScheduledHide", Null, Null, << >>))])
    ELSE w

\* ------------------------------------------------- withFormattingToolbar.ts
\* typeof props.onFocus === 'function'
IsFunction(p) == p = "userHandler"

\* Bug: the caller's handler runs before the toolbar's.
MutWrappedFocusCallerFirst(w, h, e) ==
    LET prop == w.hooks[h].options.onFocus
        w1 == IF IsFunction(prop)
              THEN [w EXCEPT !.log = Append(@, Effect("props.onFocus", prop, e, << >>))]
              ELSE w
    IN  HandleFocus([w1 EXCEPT !.log = Append(@, Effect("toolbarProps.onFocus", h, e, << >>))],
                    h, e)

\* handleFocusEvent: the toolbar's handler, then the caller's if it is a function.
WrappedFocus(w, h, e) ==
    LET prop == w.hooks[h].options.onFocus
        w1 == HandleFocus([w EXCEPT !.log = Append(@, Effect("toolbarProps.onFocus", h, e,
                                                             << >>))], h, e)
    IN  IF ~w1.threw /\ IsFunction(prop)
        THEN [w1 EXCEPT !.log = Append(@, Effect("props.onFocus", prop, e, << >>))]
        ELSE w1

\* Bug: only a blur of the active element schedules the hide.
MutWrappedBlurBound(w, h, e, t) ==
    LET prop == w.hooks[h].options.onBlur
        w0 == [w EXCEPT !.log = Append(@, Effect("toolbarProps.onBlur", h, e, << >>))]
        w1 == IF w.state.activeElement = e THEN HandleBlur(w0, h, t) ELSE w0
    IN  IF IsFunction(prop)
        THEN [w1 EXCEPT !.log = Append(@, Effect("props.onBlur", prop, e, << >>))]
        ELSE w1

\* handleBlurEvent.
WrappedBlur(w, h, e, t) ==
    LET prop == w.hooks[h].options.onBlur
        w1 == HandleBlur([w EXCEPT !.log = Append(@, Effect("toolbarProps.onBlur", h, e,
                                                            << >>))], h, t)
    IN  IF ~w1.threw /\ IsFunction(prop)
        THEN [w1 EXCEPT !.log = Append(@, Effect("props.onBlur", prop, e, << >>))]
        ELSE w1

\* --------------------------------------------------- formatting-toolbar.tsx
\* Bug: the caller's style is spread first, so it cannot place the toolbar.
MutRenderStyleFirst(toolbarState, style) ==
    IF ~toolbarState.isVisible \/ toolbarState.position = NullPos THEN << >>
    ELSE << [left |-> toolbarState.position[1], top |-> toolbarState.position[2],
             position |-> "fixed", zIndex |-> ToolbarZIndex,
             background |-> style.background] >>

\* What the component renders: nothing, or its container with the style
\* { left, position: 'fixed', top, zIndex: 1000, ...style } around the children.
FormattingToolbarRender(toolbarState, style) ==
    IF ~toolbarState.isVisible \/ toolbarState.position = NullPos THEN << >>
    ELSE << [left |-> OrDefault(style.left, toolbarState.position[1]),
             top |-> OrDefault(style.top, toolbarState.position[2]),
             position |-> OrDefault(style.position, "fixed"), zIndex |-> ToolbarZIndex,
             background |-> style.background] >>

\* handleMouseDown of the component: with preventCloseOnClick (default true) it
\* calls e.preventDefault(), and nothing else; without it there is no handler.
ComponentMouseDown(w, h) ==
    IF OrDefault(w.hooks[h].options.preventCloseOnClick, TRUE)
    THEN [w EXCEPT !.log = Append(@, Effect("preventDefault", Null, Null, << >>))]
    ELSE w

\* ------------------------------------------------------------- actions
\* The coordinator and its environment at the start of an operation.
Cur ==
    [state |-> state, activeElementOnChange |-> activeElementOnChange,
     hideTimeout |-> hideTimeout, subscribers |-> subscribers,
     timers |-> timers, els |-> els, behaviour |-> behaviour,
     closures |-> closures, hooks |-> hooks, focused |-> focused,
     calls |-> NoCalls, log |-> << >>, returned |-> << >>, threw |-> FALSE]

\* An operation: its name, its arguments (el: the element, formatter or
\* callback; fn: the positioning function or change override; n: the delay or
\* timer), and the element that was active when it was issued.
Op(name, el, fn, n) ==
    [op |-> name, el |-> el, fn |-> fn, n |-> n, from |-> state.activeElement]

\* The operation `o` ran from the current state and left the world `w`.
\* `cancels`: the operation is one that is to cancel every pending hide;
\* `fresh`: the timers the operation itself armed.
Commit(w, o, cancels, fresh) ==
    /\ state' = w.state
    /\ activeElementOnChange' = w.activeElementOnChange
    /\ hideTimeout' = w.hideTimeout
    /\ subscribers' = Compact(w.subscribers)
    /\ timers' = w.timers
    /\ els' = w.els
    /\ calls' = w.calls
    /\ log' = w.log
    /\ returned' = w.returned
    /\ threw' = w.threw
    /\ behaviour' = behaviour
    /\ closures' = w.closures
    /\ hooks' = HooksAfter(w)
    /\ focused' = w.focused
    /\ lastOp' = o
    /\ prevOp' = lastOp
    /\ superseded' = IF cancels
                     THEN ((superseded \cup timers) \cap w.timers) \ fresh
                     ELSE superseded \cap w.timers

\* Each operation is written over the sets its arguments are drawn from.
ShowToolbarFor(E, F) ==
    \E e \in E, fn \in F :
        /\ Commit(ShowToolbar(Cur, e, fn),
                  Op(IF PositionThrows(fn) THEN "showThrew" ELSE "show", e, fn, 0),
                  TRUE, {})
        /\ shownSinceHide' = IF PositionThrows(fn) THEN shownSinceHide
                             ELSE << [el |-> e, pos |-> GetPosition(fn, els[e])] >>
        /\ UNCHANGED << issued, staleFired >>

ShowToolbarCall == ShowToolbarFor(Elements, PositionFns)

HideToolbarCall ==
    /\ Commit(HideToolbar(Cur), Op("hide", Null, Null, 0), TRUE, {})
    /\ shownSinceHide' = << >>
    /\ UNCHANGED << issued, staleFired >>

ScheduleHideCall ==
    \E d \in Delays, t \in TimerIds \ timers :
        /\ Commit(ScheduleHide(Cur, d, t), Op("scheduleHide", Null, Null, d), TRUE, {t})
        /\ UNCHANGED << issued, staleFired, shownSinceHide >>

CancelScheduledHideCall ==
    /\ Commit(CancelScheduledHide(Cur), Op("cancel", Null, Null, 0), TRUE, {})
    /\ UNCHANGED << issued, staleFired, shownSinceHide >>

\* The runtime runs the callback of the armed timer t: () => this.hideToolbar().
TimerFireOf(t) ==
    /\ t \in timers
    /\ Commit(HideToolbar([Cur EXCEPT !.timers = @ \ {t}]),
              Op("fire", Null, Null, t), FALSE, {})
    /\ staleFired' = (staleFired \/ t \in superseded)
    /\ shownSinceHide' = << >>
    /\ UNCHANGED issued

TimerFire == \E t \in TimerIds : TimerFireOf(t)

ApplyFormatWith(F, O) ==
    \E f \in F, oc \in O :
        /\ Commit(ApplyFormat(Cur, f, oc), Op("applyFormat", f, oc, 0), FALSE, {})
        /\ UNCHANGED << issued, staleFired, shownSinceHide >>

ApplyFormatCall == ApplyFormatWith(Formatters, ChangeOverrides)

SubscribeOf(C) ==
    \E cb \in C :
        /\ Commit(Subscribe(Cur, cb), Op("subscribe", cb, Null, 0), FALSE, {})
        /\ issued' = issued \cup {cb}
        /\ UNCHANGED << staleFired, shownSinceHide >>

SubscribeCall == SubscribeOf(Callbacks)

UnsubscribeCall ==
    \E cb \in issued :
        /\ Commit(Unsubscribe(Cur, cb), Op("unsubscribe", cb, Null, 0), FALSE, {})
        /\ UNCHANGED << issued, staleFired, shownSinceHide >>

SubscribeKeepingCall ==
    /\ Len(closures) < MaxClosures
    /\ \E cb \in Callbacks :
        /\ Commit(SubscribeKeeping(Cur, cb), Op("subscribe", cb, Null, 0), FALSE, {})
        /\ issued' = issued \cup {cb}
        /\ UNCHANGED << staleFired, shownSinceHide >>

CallClosureCall ==
    \E i \in 1..Len(closures) :
        /\ Commit(CallClosure(Cur, i), Op("unsubscribe", closures[i].cb, Null, i), FALSE, {})
        /\ UNCHANGED << issued, staleFired, shownSinceHide >>

\* The operations of a component that uses the hook.  Each is named by the
\* hook instance in `fn`.
HookRenderOf(H, O) ==
    \E h \in H, o \in O :
        /\ hooks[h].phase = "unmounted"
        /\ Commit(HookRender(Cur, h, o), Op("render", Null, h, 0), FALSE, {})
        /\ UNCHANGED << issued, staleFired, shownSinceHide >>

HookEffectCall ==
    \E h \in Callbacks :
        /\ hooks[h].phase = "rendered"
        /\ Commit(HookEffect(Cur, h), Op("effect", Null, h, 0), FALSE, {})
        /\ UNCHANGED << issued, staleFired, shownSinceHide >>

HookUnmountCall ==
    \E h \in Callbacks :
        /\ hooks[h].phase # "unmounted"
        /\ Commit(HookUnmount(Cur, h), Op("unmount", Null, h, 0), FALSE, {})
        /\ UNCHANGED << issued, staleFired, shownSinceHide >>

\* The shown element and position after a focus handler ran for element e.
ShownAfterFocus(h, e) ==
    LET fn == UseConfig(hooks[h].options).getPosition
    IN  IF PositionThrows(fn) THEN shownSinceHide
        ELSE << [el |-> e, pos |-> GetPosition(fn, els[e])] >>

InputFocus ==
    \E h \in Callbacks, e \in Elements :
        /\ hooks[h].phase # "unmounted"
        /\ Commit(HandleFocus(Cur, h, e), Op("focus", e, h, 0), TRUE, {})
        /\ shownSinceHide' = ShownAfterFocus(h, e)
        /\ UNCHANGED << issued, staleFired >>

InputBlur ==
    \E h \in Callbacks, t \in TimerIds \ timers :
        /\ hooks[h].phase # "unmounted"
        /\ Commit(HandleBlur(Cur, h, t), Op("blur", Null, h, 0), TRUE, {t})
        /\ UNCHANGED << issued, staleFired, shownSinceHide >>

ToolbarMouseDownCall ==
    \E h \in Callbacks :
        /\ hooks[h].phase # "unmounted"
        /\ Commit(ToolbarMouseDown(Cur, h), Op("mousedown", Null, h, 0),
                  GetToolbarProps(hooks[h]).onMouseDown, {})
        /\ UNCHANGED << issued, staleFired, shownSinceHide >>

\* A pointer goes down on the FormattingToolbar component of instance h, there
\* only while the component renders something.
ComponentMouseDownCall ==
    \E h \in Callbacks :
        /\ hooks[h].phase # "unmounted"
        /\ FormattingToolbarRender(hooks[h].toolbarState, hooks[h].options.style) # << >>
        /\ Commit(ComponentMouseDown(Cur, h), Op("componentMouseDown", Null, h, 0), FALSE, {})
        /\ UNCHANGED << issued, staleFired, shownSinceHide >>

\* The operations of a component wrapped by withFormattingToolbar.
WrappedFocusCall ==
    \E h \in Callbacks, e \in Elements :
        /\ hooks[h].phase # "unmounted"
        /\ Commit(WrappedFocus(Cur, h, e), Op("wrappedFocus", e, h, 0), TRUE, {})
        /\ shownSinceHide' = ShownAfterFocus(h, e)
        /\ UNCHANGED << issued, staleFired >>

WrappedBlurCall ==
    \E h \in Callbacks, e \in Elements, t \in TimerIds \ timers :
        /\ hooks[h].phase # "unmounted"
        /\ Commit(WrappedBlur(Cur, h, e, t), Op("wrappedBlur", e, h, 0), TRUE, {t})
        /\ UNCHANGED << issued, staleFired, shownSinceHide >>

\* The user moves the focus into element e, or out of the focused element.
UserFocus ==
    \E e \in Elements :
        /\ focused = Null
        /\ Commit(Focus(Cur, e), Op("userFocus", e, Null, 0), els[e].onFocus # Undefined, {})
        /\ shownSinceHide' = IF els[e].onFocus = Undefined THEN shownSinceHide
                             ELSE << [el |-> e, pos |-> GetPosition("default", els[e])] >>
        /\ UNCHANGED << issued, staleFired >>

UserBlur ==
    \E t \in TimerIds \ timers :
        /\ focused # Null
        /\ Commit(Blur(Cur, t), Op("userBlur", focused, Null, 0),
                  els[focused].onFocus # Undefined, {t})
        /\ UNCHANGED << issued, staleFired, shownSinceHide >>

\* The caller re-renders element e with another onChange prop.
ElementPropsChange ==
    \E e \in Elements : \E cb \in OnChangeProps(e) :
        /\ cb # els[e].onChange
        /\ Commit([Cur EXCEPT !.els[e].onChange = cb], Op("setProps", e, cb, 0), FALSE, {})
        /\ UNCHANGED << issued, staleFired, shownSinceHide >>

GetStateCall ==
    /\ Commit([Cur EXCEPT !.returned = << GetState(Cur) >>],
              Op("getState", Null, Null, 0), FALSE, {})
    /\ UNCHANGED << issued, staleFired, shownSinceHide >>

\* A caller assigns to the snapshot getState() has just returned: to one of
\* its own fields, or to a field of its position, which is the object the
\* coordinator's state refers to.
SnapshotWrites == {"isVisible", "position.x"}

WriteToSnapshot(w, snapshot, field) ==
    IF field = "isVisible"
    THEN [w EXCEPT !.returned = << [snapshot EXCEPT !.isVisible = ~@] >>]
    ELSE [w EXCEPT !.returned = << [snapshot EXCEPT !.position = << 0, @[2] >>] >>,
                   !.state.position = << 0, @[2] >>]

WriteToSnapshotCall ==
    /\ lastOp.op = "getState"
    /\ \E field \in SnapshotWrites :
        /\ field = "position.x" => returned[1].position # NullPos
        /\ Commit(WriteToSnapshot(Cur, returned[1], field), Op("write", field, Null, 0),
                  FALSE, {})
        /\ UNCHANGED << issued, staleFired, shownSinceHide >>

\* ------------------------------------------------------- specification
InitElements ==
    [e \in Elements |->
        IF e = "A"
        THEN [value |-> << "a", "b" >>, selectionStart |-> 0, selectionEnd |-> 1,
              onChange |-> "cbA", onFocus |-> Undefined,
              rect |-> [left |-> 10, bottom |-> 20]]
        ELSE [value |-> << "b" >>, selectionStart |-> NullSel, selectionEnd |-> NullSel,
              onChange |-> Undefined, onFocus |-> Undefined,
              rect |-> [left |-> 10, bottom |-> 40]]]

\* Bug: the coordinator is constructed showing a toolbar for no element.
MutNewManagerVisible ==
    [state |-> [HiddenState EXCEPT !.isVisible = TRUE],
     activeElementOnChange |-> Undefined,
     hideTimeout |-> NoTimer,
     subscribers |-> << >>]

\* The field initialisers of GlobalToolbarManager.
NewManager ==
    [state |-> HiddenState,
     activeElementOnChange |-> Undefined,
     hideTimeout |-> NoTimer,
     subscribers |-> << >>]

\* The module-level singleton right after construction.
InitCoordinator ==
    /\ state = NewManager.state
    /\ activeElementOnChange = NewManager.activeElementOnChange
    /\ hideTimeout = NewManager.hideTimeout
    /\ subscribers = NewManager.subscribers
    /\ timers = {}
    /\ issued = {}
    /\ closures = << >>
    /\ hooks = [h \in Callbacks |-> Unmounted]
    /\ focused = Null
    /\ calls = NoCalls
    /\ log = << >>
    /\ returned = << >>
    /\ threw = FALSE
    /\ lastOp = [op |-> "init", el |-> Null, fn |-> Null, n |-> 0, from |-> Null]
    /\ prevOp = [op |-> "init", el |-> Null, fn |-> Null, n |-> 0, from |-> Null]
    /\ superseded = {}
    /\ staleFired = FALSE
    /\ shownSinceHide = << >>

\* The subscribers of the library are the hooks' state setters.
Recorders == [c \in Callbacks |-> Recorder]

Init == InitCoordinator /\ els = InitElements /\ behaviour = Recorders

Next ==
    \/ ShowToolbarCall
    \/ HideToolbarCall
    \/ ScheduleHideCall
    \/ CancelScheduledHideCall
    \/ TimerFire
    \/ ApplyFormatCall
    \/ SubscribeCall
    \/ UnsubscribeCall
    \/ GetStateCall

Spec == Init /\ [][Next]_vars

\* The same operations on one element and one subscriber, for the properties
\* of infinite behaviours.
NextLive ==
    \/ ShowToolbarFor({"A"}, {"default", "throwing"})
    \/ HideToolbarCall
    \/ ScheduleHideCall
    \/ CancelScheduledHideCall
    \/ TimerFire
    \/ ApplyFormatWith(Formatters, {Undefined})
    \/ SubscribeOf({"S1"})
    \/ UnsubscribeCall
    \/ GetStateCall

\* The runtime eventually runs the callback of a timer that stays armed.
SpecLive == Init /\ [][NextLive]_vars /\ \A t \in TimerIds : WF_vars(TimerFireOf(t))

\* Formatting: the text and selection of input A range over every value up
\* to MaxLen characters and every pair of offsets, present or missing.
Strings(n) == UNION {[1..k -> Alphabet] : k \in 0..n}

Offsets(v) == {NullSel} \cup (0..Len(v))

InitFmtElements ==
    UNION {{[InitElements EXCEPT !["A"].value = v,
                                 !["A"].selectionStart = s,
                                 !["A"].selectionEnd = e] :
               s \in Offsets(v), e \in Offsets(v)} : v \in Strings(MaxLen)}

InitFmt == InitCoordinator /\ els \in InitFmtElements /\ behaviour = Recorders

NextFmt ==
    \/ ShowToolbarFor(Elements, {"default"})
    \/ HideToolbarCall
    \/ ApplyFormatWith(Formatters, {Undefined})

SpecFmt == InitFmt /\ [][NextFmt]_vars

\* Subscribers that call back into the coordinator, or throw, while a
\* transition is being delivered.
InitReentrant ==
    InitCoordinator /\ els = InitElements /\ behaviour \in [Callbacks -> ReentrantBehaviours]

NextReentrant ==
    \/ ShowToolbarFor(Elements, {"default"})
    \/ HideToolbarCall
    \/ ScheduleHideCall
    \/ TimerFire
    \/ SubscribeCall
    \/ UnsubscribeCall

SpecReentrant == InitReentrant /\ [][NextReentrant]_vars

\* Callers and subscribers that assign to the snapshots they are handed.
InitAlias ==
    InitCoordinator /\ els = InitElements /\ behaviour \in [Callbacks -> MutatingBehaviours]

NextAlias ==
    \/ ShowToolbarFor(Elements, {"default", "custom"})
    \/ HideToolbarCall
    \/ SubscribeCall
    \/ UnsubscribeCall
    \/ GetStateCall
    \/ WriteToSnapshotCall

SpecAlias == InitAlias /\ [][NextAlias]_vars

\* Callers that keep every unsubscribe function subscribe returns.
NextClosures ==
    \/ ShowToolbarFor(Elements, {"default"})
    \/ HideToolbarCall
    \/ SubscribeKeepingCall
    \/ CallClosureCall

SpecClosures == Init /\ [][NextClosures]_vars

\* Inputs that carry the handlers of getInputProps(), driven by the user's
\* focus; the subscribers record what they receive.
BoundElements == [e \in Elements |-> [InitElements[e] EXCEPT !.onFocus = "handleFocus"]]

InitFocus == InitCoordinator /\ els = BoundElements /\ behaviour = Recorders

NextFocus ==
    \/ UserFocus
    \/ UserBlur
    \/ HideToolbarCall
    \/ ScheduleHideCall
    \/ CancelScheduledHideCall
    \/ TimerFire
    \/ ApplyFormatWith({"upper"}, {Undefined})
    \/ SubscribeCall
    \/ UnsubscribeCall
    \/ GetStateCall

SpecFocus == InitFocus /\ [][NextFocus]_vars

\* Elements whose onChange prop changes while the toolbar is in use; every
\* positionFn returns.
NextCapture ==
    \/ ShowToolbarFor(Elements, {"default"})
    \/ HideToolbarCall
    \/ ScheduleHideCall
    \/ TimerFire
    \/ ApplyFormatWith({"upper"}, ChangeOverrides)
    \/ ElementPropsChange

SpecCapture == Init /\ [][NextCapture]_vars

\* Components that use the hook, on top of the coordinator's own timers.
NextHook ==
    \/ HookRenderOf({"S1"}, HookOptions)
    \/ HookRenderOf({"S2"}, {NoOptions})
    \/ HookEffectCall
    \/ HookUnmountCall
    \/ InputFocus
    \/ InputBlur
    \/ ToolbarMouseDownCall
    \/ HideToolbarCall
    \/ TimerFire

SpecHook == Init /\ [][NextHook]_vars

\* One input with the hook's handlers, and both kinds of toolbar: an element
\* that spreads getToolbarProps(), and the FormattingToolbar component.
NextGuard ==
    \/ HookRenderOf({"S1"}, HookOptions)
    \/ HookEffectCall
    \/ InputFocus
    \/ InputBlur
    \/ ToolbarMouseDownCall
    \/ ComponentMouseDownCall
    \/ TimerFire

SpecGuard == Init /\ [][NextGuard]_vars

\* Components wrapped by withFormattingToolbar.
NextHoc ==
    \/ HookRenderOf({"S1"}, WrappedProps)
    \/ HookEffectCall
    \/ HookUnmountCall
    \/ WrappedFocusCall
    \/ WrappedBlurCall
    \/ TimerFire

SpecHoc == Init /\ [][NextHoc]_vars

\* ------------------------------------------------------------ properties
IsSubscribed(subs, cb) == \E i \in 1..Len(subs) : subs[i] = cb

\* Every callback in subs received exactly snap, once; the others nothing.
PublishedOnce(cs, subs, snap) ==
    \A cb \in Callbacks : cs[cb] = IF IsSubscribed(subs, cb) THEN << snap >> ELSE << >>

\* isVisible iff both activeElement and position are present.
Consistent(s) == s.isVisible <=> (s.activeElement # Null /\ s.position # NullPos)

\* The operations that change the toolbar state or arm a timer.
Transitions == {"show", "hide", "scheduleHide"}

\* With no timer armed, only a show, a hide or a scheduleHide ends the quiet:
\* any other step leaves the toolbar state as it is and arms nothing.
QuietStep ==
    (timers = {} /\ lastOp'.op \notin Transitions) => (state' = state /\ timers' = {})

\* C1: in every reachable state, and in every snapshot returned by getState
\* or delivered to a subscriber, isVisible is true iff activeElement and
\* position are both non-null.
C1_VisibilityInvariant ==
    /\ Consistent(state)
    /\ \A cb \in Callbacks : \A i \in 1..Len(calls[cb]) : Consistent(calls[cb][i])
    /\ \A i \in 1..Len(returned) : Consistent(returned[i])

C1_Witness ==
    /\ lastOp.op = "show"
    /\ state.isVisible /\ state.activeElement = "B" /\ state.position # NullPos
    /\ calls["S1"] = << state >>
    /\ prevOp.op = "hide"

\* C2: a show issued right after the scheduleHide of the active element's
\* blur cancels that hide: no timer stays armed, the toolbar is visible for
\* the element just shown, it stays so until a later show, hide or
\* scheduleHide, and no cancelled timer ever executes hide.
FocusRace == prevOp.op = "scheduleHide" /\ prevOp.from \in Elements /\ lastOp.op = "show"

C2_FocusRace ==
    [][ /\ FocusRace' =>
              /\ timers' = {} /\ hideTimeout' = NoTimer /\ superseded' = {}
              /\ state'.activeElement = lastOp'.el /\ state'.isVisible
        /\ QuietStep
        /\ ~staleFired' ]_vars

C2_Witness ==
    /\ FocusRace /\ prevOp.from = "A" /\ lastOp.el = "B"
    /\ state.activeElement = "B" /\ state.isVisible /\ timers = {}

\* C3: at most one deferred-hide timer is armed in any reachable state, and
\* it is the one the coordinator holds the handle of.
C3_SingleSlotTimer == Cardinality(timers) <= 1 /\ timers \subseteq {hideTimeout}

C3_Witness ==
    /\ prevOp.op = "scheduleHide" /\ lastOp.op = "scheduleHide"
    /\ Cardinality(timers) = 1

\* C4: of two scheduleHide calls in a row only the second timer stays armed;
\* when it fires, hide runs once: every subscriber receives exactly one
\* hidden snapshot and no timer is left to fire a second hide.
SchedulePair == prevOp.op = "scheduleHide" /\ lastOp.op = "scheduleHide"

C4_TimerSupersession ==
    [][ /\ SchedulePair' =>
              /\ Cardinality(timers') = 1 /\ timers' = {hideTimeout'}
              /\ superseded' = {}
        /\ (SchedulePair /\ lastOp'.op = "fire") =>
              /\ timers' = {} /\ hideTimeout' = NoTimer
              /\ state' = HiddenState
              /\ PublishedOnce(calls', subscribers, HiddenState)
        /\ ~staleFired' ]_vars

C4_Witness ==
    /\ SchedulePair /\ prevOp.n = 500 /\ lastOp.n = 0
    /\ state.isVisible /\ Len(subscribers) = 2
    /\ timers = {hideTimeout} /\ hideTimeout # NoTimer

\* C5: cancelScheduledHide issued after scheduleHide, before the timer
\* fires, disarms the timer and leaves the toolbar as it was; the state then
\* stays as it is until another show, hide or scheduleHide.
C5_Cancellation ==
    [][ /\ (lastOp.op = "scheduleHide" /\ lastOp'.op = "cancel") =>
              /\ timers' = {} /\ hideTimeout' = NoTimer /\ superseded' = {}
              /\ state' = state
              /\ activeElementOnChange' = activeElementOnChange
              /\ calls' = NoCalls
        /\ QuietStep
        /\ ~staleFired' ]_vars

C5_Witness ==
    /\ prevOp.op = "scheduleHide" /\ prevOp.from \in Elements
    /\ lastOp.op = "cancel"
    /\ state.isVisible /\ state.activeElement = prevOp.from /\ timers = {}

\* C6: an armed timer that no show, hide, cancelScheduledHide or further
\* scheduleHide replaces eventually fires, and the hide it executes leaves the
\* hidden state, published once to every subscriber, with no timer pending.
FireDone(t) ==
    /\ lastOp.op = "fire" /\ lastOp.n = t
    /\ state = HiddenState
    /\ activeElementOnChange = Undefined
    /\ timers = {} /\ hideTimeout = NoTimer
    /\ PublishedOnce(calls, subscribers, HiddenState)

Replaced(t) ==
    /\ lastOp.op \in {"show", "showThrew", "hide", "cancel", "scheduleHide"}
    /\ t \notin timers

C6_DeferredHideLiveness ==
    /\ [](lastOp.op = "fire" => FireDone(lastOp.n))
    /\ \A t \in TimerIds : (t \in timers) ~> (FireDone(t) \/ Replaced(t))

C6_Witness ==
    /\ prevOp.op = "scheduleHide" /\ prevOp.from \in Elements
    /\ FireDone(lastOp.n)
    /\ Len(subscribers) >= 1

\* C7: scheduleHide(0) changes nothing but the timer: the state is as before
\* when it returns and nothing is published; a show, hide or
\* cancelScheduledHide issued right after it disarms the timer, which then
\* never executes hide.
C7_ZeroDelayDeferred ==
    [][ /\ (lastOp'.op = "scheduleHide" /\ lastOp'.n = 0) =>
              /\ state' = state
              /\ activeElementOnChange' = activeElementOnChange
              /\ calls' = NoCalls
              /\ hideTimeout' # NoTimer /\ timers' = {hideTimeout'}
        /\ (lastOp.op = "scheduleHide" /\ lastOp.n = 0
               /\ lastOp'.op \in {"show", "hide", "cancel"}) =>
              /\ timers' = {} /\ hideTimeout' = NoTimer /\ superseded' = {}
        /\ ~staleFired' ]_vars

C7_Witness ==
    /\ prevOp.op = "scheduleHide" /\ prevOp.n = 0 /\ prevOp.from \in Elements
    /\ lastOp.op = "show" /\ lastOp.from = prevOp.from
    /\ state.isVisible /\ timers = {}

\* C8: a hide issued right after a hide leaves the toolbar state, the
\* captured change callback and the pending timer exactly as the first left
\* them.
C8_IdempotentHide ==
    [][ (lastOp.op = "hide" /\ lastOp'.op = "hide") =>
            /\ state' = state
            /\ activeElementOnChange' = activeElementOnChange
            /\ hideTimeout' = hideTimeout
            /\ timers' = timers ]_vars

C8_Witness ==
    /\ prevOp.op = "hide" /\ prevOp.from \in Elements
    /\ lastOp.op = "hide"
    /\ state = HiddenState

\* C9: hide issued while the toolbar is already hidden still invokes every
\* current subscriber exactly once, with the hidden snapshot.
C9_RedundantHidePublished ==
    (lastOp.op = "hide" /\ lastOp.from = Null) =>
        PublishedOnce(calls, subscribers, HiddenState)

C9_Witness ==
    /\ lastOp.op = "hide" /\ lastOp.from = Null
    /\ Len(subscribers) = 2
    /\ calls["S1"] = << HiddenState >> /\ calls["S2"] = << HiddenState >>

\* C10: while visible, the toolbar belongs to the element of the most recent
\* show that returned, at the position positionFn returned in that call; once
\* a hide has executed after that show, the toolbar is hidden.
C10_MostRecentFocusWins ==
    /\ state.activeElement \in Elements \cup {Null}
    /\ IF shownSinceHide = << >>
       THEN state = HiddenState
       ELSE state = [activeElement |-> shownSinceHide[1].el,
                     isVisible |-> TRUE,
                     position |-> shownSinceHide[1].pos]

C10_Witness ==
    /\ prevOp.op = "show" /\ lastOp.op = "show" /\ prevOp.el # lastOp.el
    /\ state.isVisible /\ state.activeElement = lastOp.el
    /\ state.position = << 10, 45 >>

\* ------------------------------------------------------------ applyFormat
\* The effects of one kind an operation had, in order.
EffectsOf(l, ev) == SelectSeq(l, LAMBDA x : x.ev = ev)

\* This step is applyFormat(f, ...) issued while `e` is the active element.
FormatStep(e, f) ==
    lastOp'.op = "applyFormat" /\ lastOp'.el = f /\ state.activeElement = e

\* The change callback applyFormat is to use: the override, else the captured one.
SelectedOnChange(override, captured) == IF override # Undefined THEN override ELSE captured

\* C11: applyFormat called while activeElement is null does not throw, does
\* not invoke the formatter, changes no element's value, invokes no change
\* callback (not even a supplied override), dispatches no input event, leaves
\* the toolbar state unchanged and notifies no subscriber: its only effect is
\* the console warning.
C11_NoActiveElementNoOp ==
    [][(lastOp'.op = "applyFormat" /\ state.activeElement = Null)
        => /\ ~threw'
           /\ log' = << Effect("warn", Null, Null, << >>) >>
           /\ els' = els
           /\ state' = state
           /\ calls' = NoCalls
           /\ << activeElementOnChange, hideTimeout, timers, subscribers >>' =
                  << activeElementOnChange, hideTimeout, timers, subscribers >>]_vars

C11_Witness ==
    /\ lastOp.op = "applyFormat" /\ lastOp.from = Null /\ lastOp.fn = "cbX"
    /\ prevOp.op = "fire" /\ prevOp.from = "A"
    /\ Len(subscribers) = 2
    /\ Len(log) = 1 /\ log[1].ev = "warn"

\* C12: with 0 <= selectionStart < selectionEnd <= length(v), the value
\* computed by a formatter f is v[0, selectionStart) ++ f(v[selectionStart,
\* selectionEnd)) ++ v[selectionEnd, end), and f is called once, with exactly
\* the selected slice.
C12_SelectionAwareFormatting ==
    [][\A e \in Elements, f \in Formatters :
        LET v == els[e].value
            s == els[e].selectionStart
            n == els[e].selectionEnd
        IN  (FormatStep(e, f) /\ ~FormatterThrows(f) /\ 0 <= s /\ s < n /\ n <= Len(v))
            => /\ els'[e].value = SubSeq(v, 1, s) \o RunFormatter(f, SubSeq(v, s + 1, n))
                                                  \o SubSeq(v, n + 1, Len(v))
               /\ EffectsOf(log', "format") = << Effect("format", f, e, SubSeq(v, s + 1, n)) >>]_vars

C12_Witness ==
    /\ lastOp.op = "applyFormat" /\ lastOp.el = "title" /\ lastOp.from = "A"
    /\ els["A"].selectionStart = 1 /\ els["A"].selectionEnd = 2
    /\ log[1].ev = "format" /\ log[1].text = << "a" >>
    /\ els["A"].value = << "B", "A" >>

C14_ApplyFormatEffect ==
    [][\A e \in Elements, f \in Formatters :
        (FormatStep(e, f) /\ ~FormatterThrows(f))
        => /\ ~threw'
           /\ els' = [els EXCEPT ![e].value = ApplyFormattingOnSelection(els[e], f)]
           /\ Len(EffectsOf(log', "focus")) = 1
           /\ EffectsOf(log', "focus")[1].target = e
           /\ state'.activeElement = e]_vars

C14_Witness ==
    /\ lastOp.op = "applyFormat" /\ lastOp.el = "title" /\ lastOp.from = "A"
    /\ state.activeElement = "A"
    /\ els["A"].selectionStart = 0 /\ els["A"].selectionEnd = 1
    /\ els["A"].value = << "A", "B" >>
    /\ log[Len(log)].ev = "focus" /\ log[Len(log)].target = "A"

\* C15: a successful applyFormat invokes exactly one change callback if one
\* is available: the override if supplied, otherwise the callback captured
\* at show time, otherwise none; with an override the captured callback is not
\* invoked; the event's target and currentTarget are both the active element.
C15_ChangeCallbackSelection ==
    [][\A e \in Elements, f \in Formatters :
        LET chosen == SelectedOnChange(lastOp'.fn, activeElementOnChange)
            invoked == EffectsOf(log', "onChange")
        IN  (FormatStep(e, f) /\ ~FormatterThrows(f))
            => IF chosen = Undefined THEN invoked = << >>
               ELSE /\ Len(invoked) = 1
                    /\ invoked[1].by = chosen
                    /\ invoked[1].target = e
                    /\ invoked[1].currentTarget = e]_vars

C15_Witness ==
    /\ lastOp.op = "applyFormat" /\ lastOp.fn = "cbX" /\ lastOp.from = "A"
    /\ ~threw
    /\ activeElementOnChange = "cbA"
    /\ Len(EffectsOf(log, "onChange")) = 1
    /\ EffectsOf(log, "onChange")[1].by = "cbX"

\* C16: every successful applyFormat dispatches exactly one 'input' event on
\* the active element whether or not a change callback is available, and a
\* selected change callback is invoked in addition to that event.
C16_BothNotificationPaths ==
    [][\A e \in Elements, f \in Formatters :
        LET chosen == SelectedOnChange(lastOp'.fn, activeElementOnChange)
            events == EffectsOf(log', "input")
        IN  (FormatStep(e, f) /\ ~FormatterThrows(f))
            => /\ Len(events) = 1
               /\ events[1].target = e
               /\ chosen # Undefined => Len(EffectsOf(log', "onChange")) = 1]_vars

C16_Witness ==
    /\ lastOp.op = "applyFormat" /\ lastOp.fn = Undefined /\ lastOp.from = "A"
    /\ ~threw
    /\ activeElementOnChange = "cbA"
    /\ Len(EffectsOf(log, "input")) = 1
    /\ Len(EffectsOf(log, "onChange")) = 1

\* C17: a formatter that throws during applyFormat with active element E
\* makes applyFormat throw; E.value is unchanged, no input event is
\* dispatched, no change callback is invoked, E.focus() is not called, the
\* toolbar state and the pending timer are unchanged, and the next applyFormat
\* with a formatter that returns formats E as usual.
C17_FormatterFailure ==
    [][\A e \in Elements, f \in Formatters :
        /\ (FormatStep(e, f) /\ FormatterThrows(f))
           => /\ threw'
              /\ els' = els
              /\ EffectsOf(log', "input") = << >>
              /\ EffectsOf(log', "onChange") = << >>
              /\ EffectsOf(log', "focus") = << >>
              /\ calls' = NoCalls
              /\ << state, activeElementOnChange, hideTimeout, timers >>' =
                     << state, activeElementOnChange, hideTimeout, timers >>
        /\ (FormatStep(e, f) /\ ~FormatterThrows(f) /\ lastOp.op = "applyFormat" /\ threw)
           => /\ ~threw'
              /\ els'[e].value = ApplyFormattingOnSelection(els[e], f)
              /\ Len(EffectsOf(log', "input")) = 1
              /\ Len(EffectsOf(log', "focus")) = 1]_vars

C17_Witness ==
    /\ lastOp.op = "applyFormat" /\ lastOp.el = "upper" /\ lastOp.from = "A" /\ ~threw
    /\ prevOp.op = "applyFormat" /\ prevOp.el = "throwing" /\ prevOp.from = "A"
    /\ state.activeElement = "A" /\ state.isVisible
    /\ hideTimeout # NoTimer /\ timers = {hideTimeout}
    /\ els["A"].value = << "A", "b" >>

\* ------------------------------------------------------------ subscribers
\* C18: once the unsubscribe function of cb has been called, cb is not
\* subscribed and is never invoked, whatever show, hide, scheduleHide or timer
\* firing follows, until cb is passed to subscribe again; calling unsubscribe
\* again changes nothing and does not throw.
C18_RoundTripSubscription ==
    [][\A cb \in Callbacks :
        /\ (lastOp'.op = "unsubscribe" /\ lastOp'.el = cb)
           => (~IsSubscribed(subscribers', cb) /\ ~threw')
        /\ (~IsSubscribed(subscribers, cb) /\ ~(lastOp'.op = "subscribe" /\ lastOp'.el = cb))
           => (calls'[cb] = << >> /\ ~IsSubscribed(subscribers', cb))
        /\ (lastOp'.op = "unsubscribe" /\ lastOp'.el = cb /\ ~IsSubscribed(subscribers, cb))
           => /\ subscribers' = subscribers
              /\ calls' = NoCalls
              /\ << state, hideTimeout, timers >>' = << state, hideTimeout, timers >>]_vars

C18_Witness ==
    /\ lastOp.op = "fire"
    /\ prevOp.op = "unsubscribe" /\ prevOp.el = "S1" /\ prevOp.from = "A"
    /\ subscribers = << "S2" >>
    /\ calls["S1"] = << >>
    /\ calls["S2"] = << HiddenState >>

\* The state a show or hide produces: the last operation's, when it is one.
Produced ==
    IF lastOp.op = "show"
    THEN [activeElement |-> lastOp.el, isVisible |-> TRUE,
          position |-> GetPosition(lastOp.fn, els[lastOp.el])]
    ELSE HiddenState

PublishingOps == {"show", "hide", "fire"}

\* C19 as stated: after a show or hide that returns, every callback that was
\* subscribed when it started has been invoked with the state the transition
\* produced, whatever the callbacks do during delivery.
C19_TotalSynchronousDelivery ==
    [][(lastOp'.op \in PublishingOps /\ ~threw')
        => \A cb \in Callbacks :
              IsSubscribed(subscribers, cb)
              => \E i \in 1..Len(calls'[cb]) : calls'[cb][i] = Produced']_vars

\* C19: after a show or hide that returns, every callback that was subscribed
\* when it started and is still subscribed has been invoked, each time with
\* the coordinator's state as of that invocation, so that the last snapshot it
\* holds is the state the operation leaves; and when no subscribed callback
\* unsubscribes or calls show/hide during delivery, every one of them is
\* invoked exactly once, with the state the transition produced.
C19_DeliveryAtInvocation ==
    [][(lastOp'.op \in PublishingOps /\ ~threw')
        => /\ \A cb \in Callbacks :
                 (IsSubscribed(subscribers, cb) /\ IsSubscribed(subscribers', cb))
                 => /\ calls'[cb] # << >>
                    /\ calls'[cb][Len(calls'[cb])] = state'
           /\ (\A cb \in Callbacks : IsSubscribed(subscribers, cb) => behaviour[cb] = Recorder)
              => /\ state' = Produced'
                 /\ PublishedOnce(calls', subscribers, Produced')]_vars

C19_Witness ==
    /\ lastOp.op = "show" /\ lastOp.el = "A" /\ ~threw
    /\ behaviour["S1"] = "hideWhenVisible" /\ behaviour["S2"] = Recorder
    /\ subscribers = << "S1", "S2" >>
    /\ calls["S2"] = << HiddenState, HiddenState >>
    /\ state = HiddenState

\* C20 as stated: an assignment to a snapshot, to one of its fields or to a
\* field of its position, changes neither the coordinator's state nor what
\* other subscribers are delivered: the state changes only through show and
\* hide, and a show delivers the state it produces to every subscriber.
C20_SnapshotIsolation ==
    [][/\ lastOp'.op \notin PublishingOps => state' = state
       /\ lastOp'.op = "show"
          => /\ state' = Produced'
             /\ PublishedOnce(calls', subscribers, Produced')]_vars

\* C21 as stated: every subscribe creates a subscription of its own, so a
\* callback for which an unsubscribe function has not yet been called (the
\* same callback subscribed twice, one of the two functions called) is still
\* invoked on every show and hide.
C21_IndependentSubscriptions ==
    [][lastOp'.op \in PublishingOps
        => \A i \in 1..Len(closures) :
              ~closures[i].called => calls'[closures[i].cb] # << >>]_vars

\* C22: before any operation the state is {activeElement: null, isVisible:
\* false, position: null}, no hide timer is pending, no change callback is
\* captured and no subscriber is registered; so the first getState returns the
\* hidden state, no timer can be the first to fire, and a first show, hide or
\* applyFormat reaches no subscriber and no change callback.
C22_InitialState ==
    /\ lastOp.op = "init"
       => /\ state = HiddenState
          /\ hideTimeout = NoTimer /\ timers = {}
          /\ activeElementOnChange = Undefined
          /\ subscribers = << >>
    /\ prevOp.op = "init"
       => /\ lastOp.op # "fire"
          /\ lastOp.op = "getState" => returned = << HiddenState >>
          /\ lastOp.op \in PublishingOps => calls = NoCalls
          /\ lastOp.op = "applyFormat" => EffectsOf(log, "onChange") = << >>

C22_Witness ==
    /\ prevOp.op = "init" /\ lastOp.op = "getState"
    /\ returned = << HiddenState >>
    /\ subscribers = << >> /\ timers = {} /\ hideTimeout = NoTimer
    /\ activeElementOnChange = Undefined

\* ------------------------------------------------------------------ hooks
\* The hook instance and element of an operation a component issued.
HookOp(o, name, h) == o.op = name /\ o.fn = h

\* C23: the onFocus handler of getInputProps calls showToolbar exactly once,
\* with the event's currentTarget and the configured getPosition (without one,
\* x = rect.left and y = rect.bottom + 5); the onBlur handler calls
\* scheduleHide exactly once with the configured hideDelay (without one, 500),
\* and hides nothing synchronously: the state stays, no subscriber is called,
\* and only the timer is armed.
C23_InputBinding ==
    [][\A h \in Callbacks :
        LET o == hooks[h].options
            fn == IF o.getPosition = << >> THEN "default" ELSE o.getPosition[1]
            delay == IF o.hideDelay = << >> THEN DefaultHideDelay ELSE o.hideDelay[1]
        IN  /\ HookOp(lastOp', "focus", h) =>
                /\ EffectsOf(log', "showToolbar")
                       = << Effect("showToolbar", fn, lastOp'.el, << >>) >>
                /\ ~threw' =>
                       /\ state'.activeElement = lastOp'.el
                       /\ state'.isVisible
                       /\ fn = "default" =>
                              state'.position
                                  = << els[lastOp'.el].rect.left,
                                       els[lastOp'.el].rect.bottom + 5 >>
                       /\ fn = "custom" =>
                              state'.position = GetPosition("custom", els[lastOp'.el])
            /\ HookOp(lastOp', "blur", h) =>
                /\ EffectsOf(log', "scheduleHide")
                       = << Effect("scheduleHide", Null, Null, << delay >>) >>
                /\ Len(log') = 1
                /\ state' = state
                /\ calls' = NoCalls
                /\ ~threw'
                /\ hideTimeout' \in timers'
                /\ timers' = {hideTimeout'}]_vars

C23_Witness ==
    /\ HookOp(prevOp, "focus", "S1")
    /\ HookOp(lastOp, "blur", "S1")
    /\ hooks["S1"].options = NoOptions
    /\ state.isVisible
    /\ state.activeElement = prevOp.el
    /\ state.position = << els[prevOp.el].rect.left, els[prevOp.el].rect.bottom + 5 >>
    /\ log = << Effect("scheduleHide", Null, Null, << 500 >>) >>
    /\ timers = {hideTimeout}

\* C24: with preventCloseOnClick true or left out, getToolbarProps() has an
\* onMouseDown handler, and a pointer going down on the toolbar calls
\* preventDefault and cancelScheduledHide: no timer stays pending, the state
\* stays, and no cancelled timer ever fires.  With preventCloseOnClick false
\* there is no handler, and the pointer going down changes nothing.
C24_PointerDownGuard ==
    [][\A h \in Callbacks :
        LET o == hooks[h].options
            guard == o.preventCloseOnClick \in {<< >>, << TRUE >>}
        IN  HookOp(lastOp', "mousedown", h) =>
                /\ GetToolbarProps(hooks[h]).onMouseDown = guard
                /\ state' = state
                /\ calls' = NoCalls
                /\ ~staleFired'
                /\ guard =>
                       /\ log' = << Effect("preventDefault", Null, Null, << >>),
                                    Effect("cancelScheduledHide", Null, Null, << >>) >>
                       /\ timers' = {}
                       /\ hideTimeout' = NoTimer
                /\ ~guard =>
                       /\ log' = << >>
                       /\ timers' = timers
                       /\ hideTimeout' = hideTimeout]_vars

C24_Witness ==
    /\ HookOp(prevOp, "blur", "S1")
    /\ HookOp(lastOp, "mousedown", "S1")
    /\ hooks["S1"].options.preventCloseOnClick = << >>
    /\ state.isVisible
    /\ timers = {}
    /\ hideTimeout = NoTimer
    /\ Len(log) = 2
    /\ ~staleFired

\* C25: after every show or hide that returns, each hook instance that was
\* mounted and subscribed when it began holds the coordinator's state as its
\* toolbarState and returns that state's isVisible; so all such instances agree.
C25_HookMirrorsCoordinator ==
    [][(lastOp'.op \in {"focus", "hide", "fire"} /\ ~threw')
        => \A h \in Callbacks :
              hooks[h].phase = "subscribed"
                  => /\ hooks'[h].toolbarState = state'
                     /\ HookResult(hooks'[h]).toolbarState = state'
                     /\ HookResult(hooks'[h]).isVisible = state'.isVisible
                     /\ \A g \in Callbacks :
                            hooks[g].phase = "subscribed"
                                => HookResult(hooks'[g]) = HookResult(hooks'[h])]_vars

C25_Witness ==
    /\ lastOp.op = "focus"
    /\ ~threw
    /\ \A h \in Callbacks : hooks[h].phase = "subscribed" /\ hooks[h].toolbarState = state
    /\ state.isVisible
    /\ state.activeElement = lastOp.el
    /\ calls["S1"] = << state >>
    /\ calls["S2"] = << state >>

\* C26: when a subscribed hook instance unmounts, its unsubscribe function is
\* called exactly once and it is no longer a subscriber; and no operation
\* hands a snapshot to the state setter of an instance that is unmounted.
C26_HookTeardown ==
    [][\A h \in Callbacks :
        /\ (HookOp(lastOp', "unmount", h) /\ hooks[h].phase = "subscribed")
               => /\ EffectsOf(log', "unsubscribe")
                         = << Effect("unsubscribe", h, Null, << >>) >>
                  /\ \A i \in 1..Len(subscribers') : subscribers'[i] # h
        /\ (hooks[h].phase = "unmounted" \/ hooks'[h].phase = "unmounted")
               => calls'[h] = << >>]_vars

C26_Witness ==
    /\ HookOp(prevOp, "unmount", "S1")
    /\ lastOp.op = "focus"
    /\ ~threw
    /\ hooks["S1"].phase = "unmounted"
    /\ hooks["S2"].phase = "subscribed"
    /\ subscribers = << "S2" >>
    /\ calls["S1"] = << >>
    /\ calls["S2"] = << state >>
    /\ state.isVisible

\* ------------------------------------------------------ withFormattingToolbar
\* The toolbar's handler and then the caller's ran, once each, for element e.
BothHandlers(l, h, e, ev, p) ==
    /\ EffectsOf(l, "toolbarProps." \o ev) = << Effect("toolbarProps." \o ev, h, e, << >>) >>
    /\ EffectsOf(l, "props." \o ev) = << Effect("props." \o ev, p, e, << >>) >>
    /\ l[1].ev = "toolbarProps." \o ev
    /\ l[Len(l)].ev = "props." \o ev

\* Only the toolbar's handler ran, once.
ToolbarHandlerOnly(l, h, e, ev) ==
    /\ EffectsOf(l, "toolbarProps." \o ev) = << Effect("toolbarProps." \o ev, h, e, << >>) >>
    /\ EffectsOf(l, "props." \o ev) = << >>

\* C27 as stated: for every focus (blur) event on a wrapped component the
\* toolbar's handler and the caller's onFocus (onBlur) prop are each invoked
\* exactly once with the event, the toolbar's first; without such a prop, or
\* with a non-function, only the toolbar's handler is invoked and nothing throws.
C27_HandlersMerged ==
    [][\A h \in Callbacks :
        /\ HookOp(lastOp', "wrappedFocus", h) =>
               IF hooks[h].options.onFocus = "userHandler"
               THEN BothHandlers(log', h, lastOp'.el, "onFocus", "userHandler")
               ELSE ToolbarHandlerOnly(log', h, lastOp'.el, "onFocus") /\ ~threw'
        /\ HookOp(lastOp', "wrappedBlur", h) =>
               IF hooks[h].options.onBlur = "userHandler"
               THEN BothHandlers(log', h, lastOp'.el, "onBlur", "userHandler")
               ELSE ToolbarHandlerOnly(log', h, lastOp'.el, "onBlur") /\ ~threw']_vars

\* C27, amended: the toolbar's handler is invoked exactly once for every focus
\* (blur) event; when it returns, the caller's prop, if a function, is then
\* invoked exactly once with the same event, and a missing or non-function
\* prop is skipped without a throw of its own; when the toolbar's focus
\* handler throws (its getPosition throws), the caller's onFocus is not
\* invoked.  The blur handler always returns.
C27_HandlersMergedOnReturn ==
    [][\A h \in Callbacks :
        /\ HookOp(lastOp', "wrappedFocus", h) =>
               /\ threw' = PositionThrows(UseConfig(hooks[h].options).getPosition)
               /\ IF hooks[h].options.onFocus = "userHandler" /\ ~threw'
                  THEN BothHandlers(log', h, lastOp'.el, "onFocus", "userHandler")
                  ELSE ToolbarHandlerOnly(log', h, lastOp'.el, "onFocus")
        /\ HookOp(lastOp', "wrappedBlur", h) =>
               /\ ~threw'
               /\ IF hooks[h].options.onBlur = "userHandler"
                  THEN BothHandlers(log', h, lastOp'.el, "onBlur", "userHandler")
                  ELSE ToolbarHandlerOnly(log', h, lastOp'.el, "onBlur")]_vars

C27_Witness ==
    /\ HookOp(prevOp, "wrappedBlur", "S1")
    /\ HookOp(lastOp, "wrappedFocus", "S1")
    /\ hooks["S1"].options.onFocus = "userHandler"
    /\ ~threw
    /\ state.isVisible
    /\ state.activeElement = lastOp.el
    /\ log = << Effect("toolbarProps.onFocus", "S1", lastOp.el, << >>),
                Effect("showToolbar", "default", lastOp.el, << >>),
                Effect("props.onFocus", "userHandler", lastOp.el, << >>) >>

\* ------------------------------------------------------- FormattingToolbar
\* What the toolbar component of hook instance h renders.
Rendered(h) == FormattingToolbarRender(hooks[h].toolbarState, hooks[h].options.style)

\* The state the component observes has the toolbar visible at a position.
Shown(ts) == ts.isVisible /\ ts.position # NullPos

\* C28 as stated: a mounted FormattingToolbar renders its container, at
\* left = position.x, top = position.y and position fixed, exactly when the
\* state it observes is visible with a position; in the hidden state it
\* renders nothing.
C28_RenderGating ==
    \A h \in Callbacks :
        hooks[h].phase # "unmounted" =>
            LET ts == hooks[h].toolbarState
            IN  /\ Rendered(h) # << >> <=> Shown(ts)
                /\ ts = HiddenState => Rendered(h) = << >>
                /\ Shown(ts) =>
                       /\ Rendered(h)[1].left = ts.position[1]
                       /\ Rendered(h)[1].top = ts.position[2]
                       /\ Rendered(h)[1].position = "fixed"

\* C28, amended: it renders exactly when the observed state is visible with a
\* position, nothing in the hidden state; left, top and position are
\* position.x, position.y and fixed except where the caller's style prop sets
\* that property, and then they are the caller's value.
C28_RenderGatingUnderStyle ==
    \A h \in Callbacks :
        hooks[h].phase # "unmounted" =>
            LET ts == hooks[h].toolbarState
                style == hooks[h].options.style
            IN  /\ Rendered(h) # << >> <=> Shown(ts)
                /\ ts = HiddenState => Rendered(h) = << >>
                /\ Shown(ts) =>
                       /\ Rendered(h)[1].left
                              = IF style.left = << >> THEN ts.position[1] ELSE style.left[1]
                       /\ Rendered(h)[1].top
                              = IF style.top = << >> THEN ts.position[2] ELSE style.top[1]
                       /\ Rendered(h)[1].position
                              = IF style.position = << >> THEN "fixed" ELSE style.position[1]

C28_Witness ==
    /\ lastOp.op = "focus"
    /\ \A h \in Callbacks : hooks[h].phase = "subscribed" /\ hooks[h].toolbarState = state
    /\ state.isVisible
    /\ state.position = << 10, 25 >>
    /\ hooks["S1"].options.style.left = << 0 >>
    /\ Rendered("S1")[1].left = 0
    /\ Rendered("S1")[1].top = 25
    /\ Rendered("S2")[1].left = 10
    /\ Rendered("S2")[1].position = "fixed"

\* ------------------------------------------------------------ missing offsets
\* C29 as stated: when selectionStart or selectionEnd of the active element is
\* missing, the formatter is applied to the entire value, also when
\* selectionStart is missing and selectionEnd = e > 0.
C29_MissingOffsetsWholeValue ==
    [][\A e \in Elements, f \in Formatters :
        LET v == els[e].value
            s == els[e].selectionStart
            n == els[e].selectionEnd
        IN  (FormatStep(e, f) /\ ~FormatterThrows(f) /\ (s = NullSel \/ n = NullSel))
            => /\ els'[e].value = RunFormatter(f, v)
               /\ EffectsOf(log', "format") = << Effect("format", f, e, v) >>]_vars

\* C29, amended: a missing offset is read as 0.  When selectionEnd is missing,
\* or selectionStart is missing and selectionEnd = 0, the formatter is applied
\* to the entire value; when selectionStart is missing and selectionEnd = e > 0,
\* it is applied to the first e characters only and the rest is kept.
C29_MissingOffsetsReadAsZero ==
    [][\A e \in Elements, f \in Formatters :
        LET v == els[e].value
            s == els[e].selectionStart
            n == els[e].selectionEnd
        IN  (FormatStep(e, f) /\ ~FormatterThrows(f) /\ (s = NullSel \/ n = NullSel))
            => IF n = NullSel \/ n = 0
               THEN /\ els'[e].value = RunFormatter(f, v)
                    /\ EffectsOf(log', "format") = << Effect("format", f, e, v) >>
               ELSE /\ els'[e].value = RunFormatter(f, SubSeq(v, 1, n)) \o SubSeq(v, n + 1, Len(v))
                    /\ EffectsOf(log', "format")
                           = << Effect("format", f, e, SubSeq(v, 1, n)) >>]_vars

C29_Witness ==
    /\ lastOp.op = "applyFormat" /\ lastOp.el = "upper" /\ lastOp.from = "A"
    /\ els["A"].selectionStart = NullSel /\ els["A"].selectionEnd = 1
    /\ log[1].ev = "format" /\ log[1].text = << "a" >>
    /\ els["A"].value = << "A", "a" >>

\* ------------------------------------------------- captured change callback
\* C30: with positionFns that return, the captured change callback is the one
\* the shown element's props held at its most recent show: a show of e sets it
\* to e's onChange prop of that moment, none included; a hide, direct or
\* timer-fired, clears it; no other operation changes it, a later change of
\* the props included.  applyFormat without an override invokes exactly the
\* captured callback, if any, so never a callback of another element.
C30_CapturedCallbackFollowsActive ==
    [][/\ lastOp'.op = "show" => activeElementOnChange' = els[lastOp'.el].onChange
       /\ lastOp'.op \in {"hide", "fire"} => activeElementOnChange' = Undefined
       /\ lastOp'.op \notin {"show", "hide", "fire"}
              => activeElementOnChange' = activeElementOnChange
       /\ state'.activeElement = Null => activeElementOnChange' = Undefined
       /\ state'.activeElement # Null
              => activeElementOnChange' \in OnChangeProps(state'.activeElement)
       /\ \A e \in Elements :
              (lastOp'.op = "applyFormat" /\ state.activeElement = e /\ lastOp'.fn = Undefined)
                  => /\ Len(EffectsOf(log', "onChange"))
                            = IF activeElementOnChange = Undefined THEN 0 ELSE 1
                     /\ \A i \in 1..Len(EffectsOf(log', "onChange")) :
                            /\ EffectsOf(log', "onChange")[i].by = activeElementOnChange
                            /\ EffectsOf(log', "onChange")[i].by \in OnChangeProps(e)
                            /\ EffectsOf(log', "onChange")[i].target = e]_vars

C30_Witness ==
    /\ prevOp.op = "setProps" /\ prevOp.el = "A"
    /\ lastOp.op = "applyFormat" /\ lastOp.fn = Undefined /\ lastOp.from = "A"
    /\ els["A"].onChange = "cbA2"
    /\ activeElementOnChange = "cbA"
    /\ Len(EffectsOf(log, "onChange")) = 1
    /\ EffectsOf(log, "onChange")[1].by = "cbA"

\* ------------------------------------------------------- frames and failures
\* C31: cancelScheduledHide called while no timer is outstanding returns
\* without any effect: the toolbar state, the captured callback, the
\* subscribers and the timers are as before and no subscriber is called; in
\* particular a hide that has executed stays executed.
C31_CancelIdleNoOp ==
    [][(lastOp'.op = "cancel" /\ hideTimeout = NoTimer)
        => /\ ~threw'
           /\ state' = state
           /\ activeElementOnChange' = activeElementOnChange
           /\ hideTimeout' = NoTimer
           /\ timers' = timers
           /\ subscribers' = subscribers
           /\ els' = els
           /\ calls' = NoCalls
           /\ log' = << >>
           /\ (prevOp'.op \in {"hide", "fire"} => state' = HiddenState)]_vars

C31_Witness ==
    /\ prevOp.op = "fire" /\ prevOp.from = "A"
    /\ lastOp.op = "cancel"
    /\ state = HiddenState
    /\ hideTimeout = NoTimer /\ timers = {}
    /\ activeElementOnChange = Undefined
    /\ Len(subscribers) = 2
    /\ calls = NoCalls

\* C32: a show of B whose positionFn throws while another element A is active
\* propagates the exception and has no effect on the coordinator: activeElement, isVisible and position are as
\* before, no subscriber is notified, a hide pending before the call is still
\* pending, and the captured change callback is the one captured before.
C32_ShowFailureAtomic ==
    [][(lastOp'.op = "showThrew" /\ state.activeElement # Null
                                  /\ lastOp'.el # state.activeElement)
        => /\ threw'
           /\ state' = state
           /\ calls' = NoCalls
           /\ hideTimeout' = hideTimeout
           /\ timers' = timers
           /\ activeElementOnChange' = activeElementOnChange]_vars

\* The operations that invoke no subscriber.
SilentOps == {"getState", "subscribe", "unsubscribe", "scheduleHide", "cancel", "applyFormat"}

\* applyFormat is about to move the focus onto an active element whose focus
\* handler calls show: the formatter returns, the element does not hold the
\* focus, and it carries the hook's onFocus.
Refocuses(f) ==
    /\ state.activeElement # Null
    /\ ~FormatterThrows(f)
    /\ focused # state.activeElement
    /\ els[state.activeElement].onFocus # Undefined

\* C33 as stated: with subscribers that do not call back into the coordinator, each
\* show, hide and timer-fired hide invokes every callback subscribed at that
\* moment exactly once and no other callback; getState, subscribe,
\* unsubscribe, scheduleHide, cancelScheduledHide and applyFormat invoke none,
\* so a new subscriber is not handed the current state.
C33_OnlyTransitionsPublish ==
    [][/\ lastOp'.op \in PublishingOps
              => \A cb \in Callbacks :
                     Len(calls'[cb]) = IF IsSubscribed(subscribers, cb) THEN 1 ELSE 0
       /\ lastOp'.op \in SilentOps => calls' = NoCalls]_vars

\* C33, amended: as above, except that applyFormat invokes no subscriber only
\* when its focus() call runs no focus handler; when it moves the focus onto an
\* active element that carries the hook's onFocus, that handler's show
\* invokes every subscriber once.
C33_OnlyTransitionsPublishUnlessRefocus ==
    [][/\ lastOp'.op \in PublishingOps
              => \A cb \in Callbacks :
                     Len(calls'[cb]) = IF IsSubscribed(subscribers, cb) THEN 1 ELSE 0
       /\ lastOp'.op \in SilentOps \ {"applyFormat"} => calls' = NoCalls
       /\ lastOp'.op = "applyFormat"
              => IF Refocuses(lastOp'.el)
                 THEN PublishedOnce(calls', subscribers, state')
                 ELSE calls' = NoCalls]_vars

C33_Witness ==
    /\ prevOp.op = "userBlur" /\ prevOp.el = "A"
    /\ lastOp.op = "applyFormat" /\ lastOp.from = "A"
    /\ focused = "A"
    /\ state.isVisible /\ state.activeElement = "A"
    /\ subscribers = << "S1", "S2" >>
    /\ calls = [cb \in Callbacks |-> << state >>]

\* C34 as stated: applyFormat, with or without an active element, whether or not the
\* formatter returns, leaves activeElement, isVisible, position, the captured
\* change callback, the pending hide timer and the subscribers as they are: it
\* neither cancels nor supersedes a pending hide, which can still fire.
C34_ApplyFormatFrame ==
    [][lastOp'.op = "applyFormat"
        => /\ state' = state
           /\ activeElementOnChange' = activeElementOnChange
           /\ hideTimeout' = hideTimeout
           /\ timers' = timers
           /\ superseded' = superseded
           /\ subscribers' = subscribers
           /\ calls' = NoCalls]_vars

\* C34, amended: the same frame, provided applyFormat's focus() call runs no
\* focus handler; when it moves the focus onto an active element that carries
\* the hook's onFocus, that handler's show cancels the pending hide, which
\* then never fires, and the element stays the active one.
C34_ApplyFormatFrameUnlessRefocus ==
    [][lastOp'.op = "applyFormat"
        => IF Refocuses(lastOp'.el)
           THEN /\ state'.activeElement = state.activeElement
                /\ state'.isVisible
                /\ hideTimeout' = NoTimer
                /\ timers' = {}
                /\ subscribers' = subscribers
           ELSE /\ state' = state
                /\ activeElementOnChange' = activeElementOnChange
                /\ hideTimeout' = hideTimeout
                /\ timers' = timers
                /\ superseded' = superseded
                /\ subscribers' = subscribers
                /\ calls' = NoCalls]_vars

C34_Witness ==
    /\ prevOp.op = "applyFormat" /\ prevOp.from = "A" /\ prevOp.el = "upper"
    /\ focused = "A"
    /\ lastOp.op = "fire" /\ lastOp.from = "A"
    /\ ~staleFired
    /\ state = HiddenState
    /\ els["A"].value # InitElements["A"].value

\* The events of a log, in order.
EventsOf(l) == [i \in 1..Len(l) |-> l[i].ev]

\* C35: on a successful applyFormat the formatter is called first, then the
\* value is written and the 'input' event dispatched, then the change
\* callback, if one is selected, is invoked, and last the element is focused;
\* the 'input' listeners and the change callback receive the active element
\* and find the new value on it.
C35_ApplyFormatOrder ==
    [][\A e \in Elements, f \in Formatters :
        LET chosen == SelectedOnChange(lastOp'.fn, activeElementOnChange)
        IN  (FormatStep(e, f) /\ ~FormatterThrows(f))
            => /\ EventsOf(log') = IF chosen = Undefined
                                   THEN << "format", "input", "focus" >>
                                   ELSE << "format", "input", "onChange", "focus" >>
               /\ \A i \in 1..Len(log') :
                      /\ log'[i].target = e
                      /\ log'[i].ev = "format" => log'[i].text = FormatterInput(els[e])
                      /\ log'[i].ev \in {"input", "onChange", "focus"}
                             => log'[i].text = els'[e].value
                      /\ log'[i].ev = "onChange" => log'[i].by = chosen]_vars

C35_Witness ==
    /\ lastOp.op = "applyFormat" /\ lastOp.el = "upper" /\ lastOp.from = "A"
    /\ EventsOf(log) = << "format", "input", "onChange", "focus" >>
    /\ log[1].text = << "a" >>
    /\ log[2].text = << "A", "b" >>
    /\ log[3].text = << "A", "b" >> /\ log[3].by = "cbA"
    /\ els["A"].value = << "A", "b" >>

\* C36: the blur handler schedules the hide whichever element is active: when
\* it runs for an element other than the active one, the state stays and the
\* timer is armed; and when that timer fires next, the toolbar is hidden
\* although the element that was active was never blurred.
C36_HideNotBoundToElement ==
    [][/\ \A h \in Callbacks :
              (HookOp(lastOp', "wrappedBlur", h) /\ state.activeElement # Null
                                                  /\ lastOp'.el # state.activeElement)
                  => /\ state' = state
                     /\ hideTimeout' # NoTimer
                     /\ timers' = {hideTimeout'}
       /\ (lastOp'.op = "fire" /\ lastOp.op = "wrappedBlur" /\ lastOp.from # Null
                               /\ lastOp.el # lastOp.from)
              => /\ state.activeElement = lastOp.from
                 /\ state.isVisible
                 /\ state' = HiddenState
                 /\ ~staleFired']_vars

C36_Witness ==
    /\ prevOp.op = "wrappedBlur" /\ prevOp.el = "A" /\ prevOp.from = "B"
    /\ lastOp.op = "fire" /\ lastOp.from = "B"
    /\ state = HiddenState
    /\ timers = {}
    /\ ~staleFired

\* ------------------------------------------------------ reentrant subscribers
\* C37: when a show, a hide or a timer-fired hide returns without a throw,
\* every callback that was subscribed when it began and still is when it
\* returns has been called, and the last snapshot it received is the
\* coordinator's state, whatever shows and hides the subscribers called from
\* inside their callbacks.
C37_ReentrantConvergence ==
    [][(lastOp'.op \in PublishingOps /\ ~threw')
        => \A cb \in Callbacks :
              (IsSubscribed(subscribers, cb) /\ IsSubscribed(subscribers', cb))
                  => /\ calls'[cb] # << >>
                     /\ calls'[cb][Len(calls'[cb])] = state']_vars

C37_Witness ==
    /\ lastOp.op = "show" /\ lastOp.el = "A"
    /\ ~threw
    /\ subscribers = << "S1", "S2" >>
    /\ behaviour["S1"] = Recorder /\ behaviour["S2"] = "hideWhenVisible"
    /\ state = HiddenState
    /\ Len(calls["S1"]) = 2 /\ calls["S1"][1].isVisible /\ calls["S1"][2] = HiddenState
    /\ Len(calls["S2"]) = 2 /\ calls["S2"][2] = HiddenState

\* The state a show of element e with the default positionFn, or a hide, stores.
StoredBy(o) ==
    IF o.op = "show"
    THEN [activeElement |-> o.el, isVisible |-> TRUE,
          position |-> << els[o.el].rect.left, els[o.el].rect.bottom + 5 >>]
    ELSE HiddenState

\* C38: a show, hide or timer-fired hide during which a subscriber callback
\* throws ends with that exception; the callback that threw was handed the
\* state the coordinator now holds, and the subscribers after it in iteration
\* order were not called.  When the subscribers before it only record, that
\* state is the one the operation stores, and each of them received it once.
\* An operation that calls a throwing callback does not return normally.
C38_ThrowingSubscriber ==
    [][lastOp'.op \in PublishingOps
        => /\ threw' =>
                \E i \in 1..Len(subscribers) :
                    /\ behaviour[subscribers[i]] = "throw"
                    /\ calls'[subscribers[i]] = << state' >>
                    /\ \A j \in (i + 1)..Len(subscribers) : calls'[subscribers[j]] = << >>
                    /\ (\A k \in 1..(i - 1) : behaviour[subscribers[k]] = Recorder)
                           => /\ state' = StoredBy(lastOp')
                              /\ \A k \in 1..(i - 1) : calls'[subscribers[k]] = << state' >>
           /\ (\E cb \in Callbacks : behaviour[cb] = "throw" /\ calls'[cb] # << >>)
                  => threw']_vars

C38_Witness ==
    /\ lastOp.op = "show" /\ lastOp.el = "A"
    /\ threw
    /\ subscribers = << "S1", "S2" >>
    /\ behaviour["S1"] = "throw" /\ behaviour["S2"] = Recorder
    /\ state.isVisible /\ state.activeElement = "A"
    /\ calls["S1"] = << state >>
    /\ calls["S2"] = << >>

\* ------------------------------------------------------ hook subscription gap
\* The step publishes a transition: a hide, a timer fire, or a focus whose
\* show returns.
Publishes == lastOp'.op \in {"hide", "fire"} \/ (lastOp'.op = "focus" /\ ~threw')

\* C39: a hook instance takes getState() when it renders and subscribes in
\* its effect, without reading the state again.  A transition published in
\* between is not delivered to it, and a toolbarState that differs from the
\* coordinator's state stays as it is, and so does the difference, until the
\* next transition is published.
C39_SubscriptionGap ==
    [][\A h \in Callbacks :
        /\ HookOp(lastOp', "render", h) => hooks'[h].toolbarState = state
        /\ (hooks[h].phase = "rendered" /\ Publishes)
               => /\ calls'[h] = << >>
                  /\ hooks'[h].toolbarState = hooks[h].toolbarState
        /\ HookOp(lastOp', "effect", h)
               => /\ hooks'[h].toolbarState = hooks[h].toolbarState
                  /\ hooks'[h].phase = "subscribed"
                  /\ calls' = NoCalls
                  /\ state' = state
        /\ (hooks[h].phase = "subscribed" /\ hooks[h].toolbarState # state
                /\ ~Publishes /\ ~HookOp(lastOp', "unmount", h))
               => /\ hooks'[h].toolbarState = hooks[h].toolbarState
                  /\ state' = state]_vars

C39_Witness ==
    /\ prevOp.op = "focus"
    /\ HookOp(lastOp, "effect", "S1")
    /\ hooks["S1"].phase = "subscribed"
    /\ hooks["S1"].toolbarState = HiddenState
    /\ state.isVisible
    /\ subscribers = << "S2", "S1" >>
    /\ hooks["S2"].toolbarState = state

\* ------------------------------------------------------- pointer-down guards
\* C40: with preventCloseOnClick true or left out, a pointer going down on the
\* FormattingToolbar component leaves the coordinator as a pointer going down
\* on an element with getToolbarProps() would: preventDefault is called and no
\* hide stays pending.
C40_EquivalentGuards ==
    [][\A h \in Callbacks :
        (HookOp(lastOp', "componentMouseDown", h)
            /\ hooks[h].options.preventCloseOnClick \in {<< >>, << TRUE >>})
        => /\ Len(EffectsOf(log', "preventDefault")) = 1
           /\ state' = ToolbarMouseDown(Cur, h).state
           /\ hideTimeout' = ToolbarMouseDown(Cur, h).hideTimeout
           /\ timers' = ToolbarMouseDown(Cur, h).timers
           /\ timers' = {}]_vars

====
